---------------------------- MODULE Spec2Model ----------------------------
(***************************************************************************)
(* State-machine model of the eventPlanner backend.                        *)
(*                                                                         *)
(*  SpecRL   : the in-memory rate limiters                                 *)
(*             (RateLimitMiddleware.createLimiter, AdminMiddleware.rateLimit)*)
(*  SpecAuth : the admin authentication layer                              *)
(*             (AuthMiddleware, AuthController, AuthService, Admin)        *)
(*  SpecAdmins : the route GET /auth/admins with its middleware chain      *)
(*  SpecReg, SpecEvents, SpecFeedback, SpecAttendance :                    *)
(*             the registrations, events, feedback and attendance layers   *)
(*  SpecProfile : the profile routes of the auth layer                     *)
(*  SpecStartup : the start of the server process                          *)
(***************************************************************************)
EXTENDS Integers, Sequences, FiniteSets, Bags, TLC

VARIABLES
    now,        \* Date.now(), in scaled time units
    store,      \* RateLimitMiddleware.store: key -> reference to a record object (0 = no entry)
    recs,       \* heap of the record objects {count, resetTime} created by the limiters
    pend,       \* per record object: admitted requests whose response has not finished yet
    hist,       \* history per record object: increments, finish-time decrements, admissions
    admitLog,   \* history per key: times of the requests a createLimiter limiter admitted
    attempts,   \* the `attempts` Map closed over by AdminMiddleware.rateLimit
    adminLog,   \* history per admin key: times of the requests AdminMiddleware.rateLimit admitted
    rlReq,      \* the last request that went through a limiter, with the store entry it found
    rlRes,      \* what the limiter did with it
    env,        \* process.env: which of the variables the code reads are set
    admins,     \* the rows of the `admins` table, in insertion order
    before,     \* the rows of the `admins` table before the last request was handled
    tokens,     \* per admin id: the access token the client holds (the latest one issued)
    req,        \* the last request handled by the auth layer
    res,        \* the response it received
    proc,       \* the phase of the server process: loading its modules, listening, exited
    events,         \* the rows of the `events` table
    registrations,  \* the rows of the `registrations` table
    attendance,     \* the rows of the `attendance` table
    feedback,       \* the rows of the `feedback` table
    inflight,   \* bag of the inserts into `registrations` that handlers have sent and the store has not executed yet
    prev,       \* the four tables above before the last request to them was executed
    dreq,       \* the last request to the events / registrations / attendance / feedback layer
    dres        \* the answer it received

rlHist == <<pend, hist, admitLog, rlReq, rlRes>>

adminRl == <<attempts, adminLog>>

authVars == <<env, admins, before, tokens, req, res>>

tables == <<events, registrations, attendance, feedback>>

domainVars == <<proc, events, registrations, attendance, feedback, inflight, prev, dreq, dres>>

vars == <<now, store, recs, pend, hist, admitLog, attempts, adminLog, rlReq, rlRes,
          env, admins, before, tokens, req, res,
          proc, events, registrations, attendance, feedback, inflight, prev, dreq, dres>>

---------------------------------------------------------------------------
(* Bounds of the model *)

MaxTime == 2        \* the clock stops here
MaxRequests == 4    \* requests sent through the limiters in one behaviour
LimMax == 2         \* `max` of the modelled limiters (100 / 5 in the code, scaled)
WindowMs == 2       \* `windowMs` of the modelled limiters (15 minutes in the code, scaled)

---------------------------------------------------------------------------
(* Helpers *)

Max(a, b) == IF a >= b THEN a ELSE b

RECURSIVE SumIncs(_)
SumIncs(s) == IF s = <<>> THEN 0 ELSE Head(s).incs + SumIncs(Tail(s))

\* number of entries of the sequence of times s that lie in lo..hi
CountIn(s, lo, hi) == Cardinality({i \in DOMAIN s : lo <= s[i] /\ s[i] <= hi})

Times == 0..(MaxTime + WindowMs + 1)

---------------------------------------------------------------------------
(* AdminMiddleware.rateLimit: users, keys and helpers *)

NoUser == [id |-> "", role |-> ""]

RLUsers == {[id |-> "a1", role |-> "admin"],
            [id |-> "s1", role |-> "student"],
            NoUser}

\* AdminMiddleware.isAdmin
isAdmin(user) == user # NoUser /\ (user.role = "admin" \/ user.role = "super_admin")

adminKey(user) == <<"admin_", user.id>>

AdminKeys == {adminKey(u) : u \in {v \in RLUsers : isAdmin(v)}}

\* `userAttempts.filter(time => time > windowStart)`
recentAttempts(userAttempts, windowStart) == SelectSeq(userAttempts, LAMBDA time : time > windowStart)

\* `recentAttempts.length >= maxAttempts`
TooManyAttempts(n, maxAttempts) == n >= maxAttempts

RECURSIVE SumLen(_, _)
SumLen(f, S) == IF S = {} THEN 0
                ELSE LET k == CHOOSE x \in S : TRUE IN Len(f[k]) + SumLen(f, S \ {k})

TotalAdminActions == SumLen(adminLog, AdminKeys)

---------------------------------------------------------------------------
(* RateLimitMiddleware *)

IPs == {"10.0.0.1"}

\* The two configurations the pre-configured limiters use: `general` (no skip
\* option) and `auth` (skipSuccessfulRequests: true, key prefix auth_).
LimiterNames == {"general", "auth"}

Limiter(l) ==
    IF l = "auth"
    THEN [windowMs |-> WindowMs, max |-> LimMax, prefix |-> "auth_",
          skipSuccessfulRequests |-> TRUE, skipFailedRequests |-> FALSE]
    ELSE [windowMs |-> WindowMs, max |-> LimMax, prefix |-> "",
          skipSuccessfulRequests |-> FALSE, skipFailedRequests |-> FALSE]

keyGenerator(l, ip) == <<Limiter(l).prefix, ip>>

Keys == {keyGenerator(l, ip) : l \in LimiterNames, ip \in IPs}

NoRecord == 0

\* cleanExpiredEntries(): delete every entry whose record has resetTime <= now
cleanExpiredEntries(st, rc, t) ==
    [k \in Keys |-> IF st[k] # NoRecord /\ rc[st[k]].resetTime <= t THEN NoRecord ELSE st[k]]

\* `!record || record.resetTime <= now`
IsFresh(st, rc, key, t) == st[key] = NoRecord \/ rc[st[key]].resetTime <= t

\* mutant: an increment that meets an already counted request is lost
Increment_Lost(r) == IF r.count >= 1 THEN r ELSE [r EXCEPT !.count = @ + 1]

\* `record.count++`
Increment(r) == [r EXCEPT !.count = @ + 1]

\* `record.count--`
Decrement(r) == [r EXCEPT !.count = @ - 1]

\* mutant: off-by-one comparison
OverLimit_OffByOne(count, max) == count > max + 1

\* `record.count > max`
OverLimit(count, max) == count > max

\* shouldSkip of the res.on('finish') handler
shouldSkip(l, statusCode) ==
    \/ (Limiter(l).skipSuccessfulRequests /\ statusCode < 400)
    \/ (Limiter(l).skipFailedRequests /\ statusCode >= 400)

\* The synchronous part of the middleware returned by createLimiter (no
\* suspension point between store.get and store.set): the result carries the
\* new store and heap, the record object the request holds, and the verdict.
Limit(l, ip, clean, st0, rc0, t) ==
    LET key   == keyGenerator(l, ip)
        st    == IF clean THEN cleanExpiredEntries(st0, rc0, t) ELSE st0
        fresh == IsFresh(st, rc0, key, t)
        rid   == IF fresh THEN Len(rc0) + 1 ELSE st[key]
        rc1   == IF fresh
                 THEN Append(rc0, [lim |-> l, key |-> key, count |-> 0,
                                   resetTime |-> t + Limiter(l).windowMs])
                 ELSE rc0
        rc2   == [rc1 EXCEPT ![rid] = Increment(@)]
        over  == OverLimit(rc2[rid].count, Limiter(l).max)
    IN  [store |-> [st EXCEPT ![key] = rid],
         recs |-> rc2,
         rid |-> rid,
         fresh |-> fresh,
         status |-> IF over THEN 429 ELSE 0,     \* 0: no response sent by the limiter
         nextCalled |-> IF over THEN 0 ELSE 1,
         remaining |-> Max(0, Limiter(l).max - rc2[rid].count)]

TotalRequests == SumIncs(hist)

NoRlReq == [lim |-> "none", key |-> <<"", "">>, at |-> 0, found |-> FALSE,
            foundCount |-> 0, foundReset |-> 0, curRid |-> 0, curCount |-> 0, curReset |-> 0]
NoRlRes == [status |-> 0, nextCalled |-> 0, count |-> 0, rid |-> 0]

\* The latest record object created for a key (the record of the key's
\* current window), 0 if none
CurrentRid(rc, key) ==
    LET S == {i \in 1..Len(rc) : rc[i].key = key}
    IN  IF S = {} THEN 0 ELSE CHOOSE i \in S : \A j \in S : j <= i

\* A request enters a createLimiter middleware
LimiterRequest(l, ip, clean) ==
    LET key == keyGenerator(l, ip)
        r   == Limit(l, ip, clean, store, recs, now)
    IN  /\ TotalRequests + TotalAdminActions < MaxRequests
        /\ store' = r.store
        /\ recs' = r.recs
        /\ pend' = IF r.fresh THEN Append(pend, r.nextCalled)
                   ELSE [pend EXCEPT ![r.rid] = @ + r.nextCalled]
        /\ hist' = IF r.fresh
                   THEN Append(hist, [incs |-> 1, decs |-> 0, adm |-> r.nextCalled])
                   ELSE [hist EXCEPT ![r.rid] = [@ EXCEPT !.incs = @ + 1,
                                                          !.adm = @ + r.nextCalled]]
        /\ admitLog' = IF r.nextCalled = 1
                       THEN [admitLog EXCEPT ![key] = Append(@, now)]
                       ELSE admitLog
        /\ rlReq' = [lim |-> l, key |-> key, at |-> now,
                     found |-> store[key] # NoRecord,
                     foundCount |-> IF store[key] # NoRecord THEN recs[store[key]].count ELSE 0,
                     foundReset |-> IF store[key] # NoRecord THEN recs[store[key]].resetTime ELSE 0,
                     curRid |-> CurrentRid(recs, key),
                     curCount |-> IF CurrentRid(recs, key) # 0
                                  THEN recs[CurrentRid(recs, key)].count ELSE 0,
                     curReset |-> IF CurrentRid(recs, key) # 0
                                  THEN recs[CurrentRid(recs, key)].resetTime ELSE 0]
        /\ rlRes' = [status |-> r.status, nextCalled |-> r.nextCalled,
                     count |-> r.recs[r.rid].count, rid |-> r.rid]
        /\ UNCHANGED <<now, attempts, adminLog>>
        /\ UNCHANGED authVars
        /\ UNCHANGED domainVars

\* The response of an admitted request finishes: the 'finish' handler runs
\* with the record object the request captured
Finish(rid, statusCode) ==
    /\ rid \in 1..Len(recs)
    /\ pend[rid] > 0
    /\ pend' = [pend EXCEPT ![rid] = @ - 1]
    /\ IF shouldSkip(recs[rid].lim, statusCode)
       THEN /\ recs' = [recs EXCEPT ![rid] = Decrement(@)]
            /\ store' = [store EXCEPT ![recs[rid].key] = rid]
            /\ hist' = [hist EXCEPT ![rid] = [@ EXCEPT !.decs = @ + 1]]
       ELSE UNCHANGED <<recs, store, hist>>
    /\ UNCHANGED <<now, admitLog, attempts, adminLog, rlReq, rlRes>>
    /\ UNCHANGED authVars
    /\ UNCHANGED domainVars

---------------------------------------------------------------------------
(* AdminMiddleware.rateLimit *)

\* A request enters the middleware returned by AdminMiddleware.rateLimit
AdminRateLimit(user) ==
    /\ TotalRequests + TotalAdminActions < MaxRequests
    /\ IF ~isAdmin(user)
       THEN /\ rlRes' = [status |-> 0, nextCalled |-> 1, count |-> 0, rid |-> 0]
            /\ rlReq' = [NoRlReq EXCEPT !.lim = "adminRateLimit", !.at = now]
            /\ UNCHANGED <<attempts, adminLog>>
       ELSE LET key == adminKey(user)
                windowStart == now - WindowMs
                recent == recentAttempts(attempts[key], windowStart)
            IN  IF TooManyAttempts(Len(recent), LimMax)
                THEN /\ rlRes' = [status |-> 429, nextCalled |-> 0,
                                  count |-> Len(recent), rid |-> 0]
                     /\ rlReq' = [NoRlReq EXCEPT !.lim = "adminRateLimit", !.key = key, !.at = now]
                     /\ UNCHANGED <<attempts, adminLog>>
                ELSE /\ attempts' = [attempts EXCEPT ![key] = Append(recent, now)]
                     /\ adminLog' = [adminLog EXCEPT ![key] = Append(@, now)]
                     /\ rlRes' = [status |-> 0, nextCalled |-> 1,
                                  count |-> Len(recent) + 1, rid |-> 0]
                     /\ rlReq' = [NoRlReq EXCEPT !.lim = "adminRateLimit", !.key = key, !.at = now]
    /\ UNCHANGED <<now, store, recs, pend, hist, admitLog>>
    /\ UNCHANGED authVars
    /\ UNCHANGED domainVars

---------------------------------------------------------------------------
(* Auth layer: data *)

MaxAdmins == 2      \* rows the admins table can hold in one behaviour
TokenTtl == 2       \* lifetime of an access token ('24h' in the code, scaled)

SALT_ROUNDS == 12
RegisterMinPassword == 6
ChangeMinPassword == 6

NoLogin == -1       \* last_login of an admin that never logged in (null)

AdminId(n) == <<"adm", n>>
NoId == AdminId(0)
UnknownId == AdminId(99)            \* a well-formed id that matches no row
AdminIds == {AdminId(n) : n \in 1..MaxAdmins}

Missing == ""                       \* an absent (undefined / empty) body field
Usernames == {"alice", "bob"}
Emails == {"a@x.io", "b@x.io"}
Passwords == {"12345", "secret", "hunter22"}
Salt == "bcrypt-salt"                \* the salt bcrypt draws
VALID_ROLES == {"admin", "super_admin"}
DbFaults == {"none", "read", "write"}   \* which store calls of a request fail

\* Admin.validateUsername: /^[a-zA-Z0-9_]{3,20}$/ (the model's names are alphanumeric)
validateUsername(username) == Len(username) >= 3 /\ Len(username) <= 20

\* Admin.validateEmail: /^[^\s@]+@[^\s@]+\.[^\s@]+$/ (the model's emails have that shape)
validateEmail(email) == email \in Emails

\* Admin.validateRole
validateRole(role) == role \in VALID_ROLES

\* CryptoHelper.hashPassword: bcrypt.hash(password, SALT_ROUNDS) with a random salt
hashPassword(password, salt) == [pw |-> password, salt |-> salt, rounds |-> SALT_ROUNDS]

\* mutant: the stored hash is not compared
comparePassword_Always(password, hash) == TRUE

\* CryptoHelper.comparePassword: bcrypt.compare(password, hash)
comparePassword(password, hash) == hash.pw = password

NoHash == [pw |-> Missing, salt |-> "", rounds |-> 0]

NoAdminJson == [id |-> NoId, username |-> "", email |-> "", role |-> "",
                is_active |-> FALSE, last_login |-> NoLogin, password_hash |-> NoHash]

\* Admin.toJSON that copies password_hash whatever includePassword is
toJSON_WithHash(row, includePassword) ==
    [id |-> row.id, username |-> row.username, email |-> row.email, role |-> row.role,
     is_active |-> row.is_active, last_login |-> row.last_login,
     password_hash |-> row.password_hash]

\* Admin.toJSON(includePassword)
toJSON(row, includePassword) ==
    [id |-> row.id, username |-> row.username, email |-> row.email, role |-> row.role,
     is_active |-> row.is_active, last_login |-> row.last_login,
     password_hash |-> IF includePassword THEN row.password_hash ELSE NoHash]

NoClaims == [id |-> NoId, username |-> "", email |-> "", role |-> ""]

NoToken == [kind |-> "none", payload |-> NoClaims, exp |-> 0, sig |-> ""]
Garbage == [kind |-> "garbage", payload |-> NoClaims, exp |-> 0, sig |-> ""]

\* AuthMiddleware.generateToken: jwt.sign(payload, JWT_SECRET, {expiresIn: '24h'})
generateToken(payload, t) ==
    [kind |-> "access", payload |-> payload, exp |-> t + TokenTtl, sig |-> "good"]

\* AuthMiddleware.generateRefreshToken: jwt.sign(payload, refreshSecret, {expiresIn: '7d'})
generateRefreshToken(payload, t) ==
    [kind |-> "refresh", payload |-> payload, exp |-> t + 7 * TokenTtl, sig |-> "good"]

Response(status, message) ==
    [status |-> status, message |-> message, admin |-> NoAdminJson,
     accessToken |-> NoToken, refreshToken |-> NoToken, admins |-> <<>>,
     user |-> NoClaims, nextCalls |-> 0, data |-> Missing]

NoResponse == Response(0, "")

NoRequest == [route |-> "none", header |-> NoToken, identifier |-> "", username |-> "",
              email |-> "", password |-> "", newPassword |-> "", role |-> "",
              id |-> NoId, fault |-> "none", at |-> 0]

\* AuthMiddleware.verifyToken.  jwt.verify throws JsonWebTokenError for a
\* malformed token or a bad signature, and, after the signature check,
\* TokenExpiredError when now >= exp.
verifyToken(header, secretKey, t) ==
    IF header.kind = "none"
    THEN Response(401, "Access token is required")
    ELSE IF ~secretKey
    THEN Response(500, "Server configuration error")
    ELSE IF header.kind = "garbage" \/ header.sig # "good"
    THEN Response(401, "Invalid token")
    ELSE IF t >= header.exp
    THEN Response(401, "Token has expired")
    ELSE [Response(0, "") EXCEPT !.user = header.payload, !.nextCalls = 1]

\* mutant: the admin role is taken for the super-admin role
isSuperAdminRole_AnyAdmin(role) == role = "super_admin" \/ role = "admin"

\* the comparison `req.user.role !== 'super_admin'`, negated
isSuperAdminRole(role) == role = "super_admin"

\* AuthMiddleware.verifySuperAdmin
verifySuperAdmin(user) ==
    IF user = NoClaims
    THEN Response(401, "Authentication required")
    ELSE IF ~isSuperAdminRole(user.role)
    THEN Response(403, "Super admin access required")
    ELSE [Response(0, "") EXCEPT !.user = user, !.nextCalls = 1]

---------------------------------------------------------------------------
(* Auth layer: AuthService *)

NoRow == 0

\* the result of a `.select('*').eq(col, v).single()` lookup: PGRST116 (no
\* single row) is a null result, any other store error is re-thrown
Lookup(db, col, v, fault) ==
    LET S == {i \in 1..Len(db) : db[i][col] = v}
    IN  IF fault = "read" THEN [err |-> TRUE, row |-> NoRow]
        ELSE IF Cardinality(S) = 1 THEN [err |-> FALSE, row |-> CHOOSE i \in S : TRUE]
        ELSE [err |-> FALSE, row |-> NoRow]

\* AuthService.getAdminByEmail when the lookup never finds a row
getAdminByEmail_Never(db, email, fault) == [err |-> FALSE, row |-> NoRow]

\* AuthService.getAdminByEmail
getAdminByEmail(db, email, fault) == Lookup(db, "email", email, fault)

\* mutant: the username lookup never finds a row
getAdminByUsername_Never(db, username, fault) == [err |-> FALSE, row |-> NoRow]

\* AuthService.getAdminByUsername
getAdminByUsername(db, username, fault) == Lookup(db, "username", username, fault)

\* AuthService.getAdminById
getAdminById(db, adminId, fault) == Lookup(db, "id", adminId, fault)

\* `throw new Error(`${context}: ${error.message}`)`
Wrap(context, cause) == context \o ": " \o cause

\* what a service call hands back: the new table, and either a result or the
\* message of the Error it throws
Outcome(ok, message, db) ==
    [ok |-> ok, message |-> message, db |-> db, admin |-> NoAdminJson,
     accessToken |-> NoToken, refreshToken |-> NoToken, admins |-> <<>>]

tokenPayload(row) ==
    [id |-> row.id, username |-> row.username, email |-> row.email, role |-> row.role]

\* mutant: a deactivated account is not recognised
isDeactivated_Never(row) == FALSE

\* `!admin.is_active`
isDeactivated(row) == ~row.is_active

\* mutant: the self-deactivation check is missing
isSelf_Never(id, user) == FALSE

\* `id === req.user.id`
isSelf(id, user) == id = user.id

\* AuthService.registerAdmin
registerAdmin(db, adminData, fault, salt, secretKey, t) ==
    LET role    == IF adminData.role = Missing THEN "admin" ELSE adminData.role
        byEmail == getAdminByEmail(db, adminData.email, fault)
        byName  == getAdminByUsername(db, adminData.username, fault)
        row     == [id |-> AdminId(Len(db) + 1),
                    username |-> adminData.username,
                    email |-> adminData.email,
                    password_hash |-> hashPassword(adminData.password, salt),
                    role |-> role,
                    is_active |-> TRUE,
                    last_login |-> NoLogin]
        payload == tokenPayload(row)
    IN  IF byEmail.err
        THEN Outcome(FALSE, "Failed to register admin: Failed to get admin by email: store error", db)
        ELSE IF byEmail.row # NoRow
        THEN Outcome(FALSE, "Failed to register admin: Admin with this email already exists", db)
        ELSE IF byName.err
        THEN Outcome(FALSE, "Failed to register admin: Failed to get admin by username: store error", db)
        ELSE IF byName.row # NoRow
        THEN Outcome(FALSE, "Failed to register admin: Admin with this username already exists", db)
        ELSE IF ~validateUsername(adminData.username)
        THEN Outcome(FALSE, "Failed to register admin: Username must be 3-20 characters long and contain only letters, numbers, and underscores", db)
        ELSE IF ~validateEmail(adminData.email)
        THEN Outcome(FALSE, "Failed to register admin: Valid email is required", db)
        ELSE IF ~validateRole(role)
        THEN Outcome(FALSE, "Failed to register admin: Role must be one of: admin, super_admin", db)
        ELSE IF fault = "write"
        THEN Outcome(FALSE, "Failed to register admin: store error", db)
        ELSE IF ~secretKey
        THEN Outcome(FALSE, "Failed to register admin: JWT_SECRET environment variable is not set",
                     Append(db, row))
        ELSE [Outcome(TRUE, "", Append(db, row)) EXCEPT
                 !.admin = toJSON(row, FALSE),
                 !.accessToken = generateToken(payload, t),
                 !.refreshToken = generateRefreshToken(payload, t)]

\* AuthService.updateLastLogin: a store error is logged and swallowed
updateLastLogin(db, i, fault, t) ==
    IF fault = "write" THEN db ELSE [db EXCEPT ![i].last_login = t]

\* AuthService.loginAdmin
loginAdmin(db, identifier, password, fault, secretKey, t) ==
    LET byEmail == getAdminByEmail(db, identifier, fault)
        byName  == getAdminByUsername(db, identifier, fault)
        i       == IF byEmail.row # NoRow THEN byEmail.row ELSE byName.row
        db2     == updateLastLogin(db, i, fault, t)
        payload == tokenPayload(db[i])
    IN  IF byEmail.err
        THEN Outcome(FALSE, "Login failed: Failed to get admin by email: store error", db)
        ELSE IF byEmail.row = NoRow /\ byName.err
        THEN Outcome(FALSE, "Login failed: Failed to get admin by username: store error", db)
        ELSE IF i = NoRow
        THEN Outcome(FALSE, "Login failed: Invalid credentials", db)
        ELSE IF isDeactivated(db[i])
        THEN Outcome(FALSE, "Login failed: Account is deactivated", db)
        ELSE IF ~comparePassword(password, db[i].password_hash)
        THEN Outcome(FALSE, "Login failed: Invalid credentials", db)
        ELSE IF ~secretKey
        THEN Outcome(FALSE, "Login failed: JWT_SECRET environment variable is not set", db2)
        ELSE [Outcome(TRUE, "", db2) EXCEPT
                 !.admin = [toJSON(db[i], FALSE) EXCEPT !.last_login = t],
                 !.accessToken = generateToken(payload, t),
                 !.refreshToken = generateRefreshToken(payload, t)]

\* AuthService.changePassword
changePassword(db, adminId, currentPassword, newPassword, fault, salt) ==
    LET byId == getAdminById(db, adminId, fault)
        i    == byId.row
    IN  IF byId.err
        THEN Outcome(FALSE, "Failed to change password: Failed to get admin by ID: store error", db)
        ELSE IF i = NoRow
        THEN Outcome(FALSE, "Failed to change password: Admin not found", db)
        ELSE IF ~comparePassword(currentPassword, db[i].password_hash)
        THEN Outcome(FALSE, "Failed to change password: Current password is incorrect", db)
        ELSE IF fault = "write"
        THEN Outcome(FALSE, "Failed to change password: store error", db)
        ELSE Outcome(TRUE, "",
                     [db EXCEPT ![i].password_hash = hashPassword(newPassword, salt)])

\* `.update({ is_active: v }).eq('id', adminId)`: every matching row, no error when none matches
SetActive(db, adminId, v) ==
    [i \in 1..Len(db) |-> IF db[i].id = adminId THEN [db[i] EXCEPT !.is_active = v] ELSE db[i]]

\* AuthService.deactivateAdmin
deactivateAdmin(db, adminId, fault) ==
    IF fault = "write"
    THEN Outcome(FALSE, "Failed to deactivate admin: store error", db)
    ELSE Outcome(TRUE, "", SetActive(db, adminId, FALSE))

\* AuthService.activateAdmin
activateAdmin(db, adminId, fault) ==
    IF fault = "write"
    THEN Outcome(FALSE, "Failed to activate admin: store error", db)
    ELSE Outcome(TRUE, "", SetActive(db, adminId, TRUE))

\* AuthService.getAllAdmins: ordered by created_at, descending
getAllAdmins(db, fault) ==
    IF fault = "read"
    THEN Outcome(FALSE, "Failed to get all admins: store error", db)
    ELSE [Outcome(TRUE, "", db) EXCEPT
             !.admins = [i \in 1..Len(db) |-> toJSON(db[Len(db) + 1 - i], FALSE)]]

\* AuthService.updateAdminProfile.  Only username and email can be updated;
\* a field that is not in the body is Missing.
updateAdminProfile(db, adminId, updateData, fault) ==
    LET byEmail == getAdminByEmail(db, updateData.email, fault)
        byName  == getAdminByUsername(db, updateData.username, fault)
        S       == {i \in 1..Len(db) : db[i].id = adminId}
        i       == CHOOSE j \in S : TRUE
        row     == [db[i] EXCEPT
                      !.username = IF updateData.username # Missing
                                   THEN updateData.username ELSE @,
                      !.email = IF updateData.email # Missing THEN updateData.email ELSE @]
        context == "Failed to update admin profile"
    IN  IF updateData.username = Missing /\ updateData.email = Missing
        THEN Outcome(FALSE, Wrap(context, "No valid fields to update"), db)
        ELSE IF updateData.email # Missing /\ byEmail.err
        THEN Outcome(FALSE, Wrap(context, "Failed to get admin by email: store error"), db)
        ELSE IF updateData.email # Missing /\ byEmail.row # NoRow
                /\ db[byEmail.row].id # adminId
        THEN Outcome(FALSE, Wrap(context, "Email already in use"), db)
        ELSE IF updateData.username # Missing /\ byName.err
        THEN Outcome(FALSE, Wrap(context, "Failed to get admin by username: store error"), db)
        ELSE IF updateData.username # Missing /\ byName.row # NoRow
                /\ db[byName.row].id # adminId
        THEN Outcome(FALSE, Wrap(context, "Username already in use"), db)
        ELSE IF fault = "write"
        THEN Outcome(FALSE, Wrap(context, "store error"), db)
        ELSE IF S = {}
        THEN Outcome(FALSE, Wrap(context, "JSON object requested, multiple (or no) rows returned"), db)
        ELSE [Outcome(TRUE, "", [db EXCEPT ![i] = row]) EXCEPT !.admin = toJSON(row, FALSE)]

\* AuthService.requestPasswordReset: the message of the result it returns
requestPasswordReset(db, email, fault) ==
    LET byEmail == getAdminByEmail(db, email, fault)
    IN  IF byEmail.err
        THEN Outcome(FALSE, Wrap("Failed to request password reset",
                                 "Failed to get admin by email: store error"), db)
        ELSE IF byEmail.row = NoRow
        THEN Outcome(TRUE, "If an account exists, a reset email will be sent", db)
        ELSE Outcome(TRUE, "Password reset instructions sent to email", db)

---------------------------------------------------------------------------
(* Auth layer: AuthController.  Each operator yields the response and the
   table the handler leaves behind. *)

Handled(response, db) == [res |-> response, db |-> db]

\* AuthController.register
AuthController_register(db, body, fault, salt, secretKey, t) ==
    IF body.username = Missing \/ body.email = Missing \/ body.password = Missing
    THEN Handled(Response(400, "Username, email, and password are required"), db)
    ELSE IF Len(body.password) < RegisterMinPassword
    THEN Handled(Response(400, "Password must be at least 6 characters long"), db)
    ELSE LET r == registerAdmin(db, body, fault, salt, secretKey, t)
         IN  IF r.ok
             THEN Handled([Response(201, "Admin registered successfully") EXCEPT
                              !.admin = r.admin, !.accessToken = r.accessToken,
                              !.refreshToken = r.refreshToken], r.db)
             ELSE Handled(Response(400, r.message), r.db)

\* AuthController.login
AuthController_login(db, body, fault, secretKey, t) ==
    IF body.identifier = Missing \/ body.password = Missing
    THEN Handled(Response(400, "Email/username and password are required"), db)
    ELSE LET r == loginAdmin(db, body.identifier, body.password, fault, secretKey, t)
         IN  IF r.ok
             THEN Handled([Response(200, "Login successful") EXCEPT
                              !.admin = r.admin, !.accessToken = r.accessToken,
                              !.refreshToken = r.refreshToken], r.db)
             ELSE Handled(Response(401, r.message), r.db)

\* AuthController.changePassword
AuthController_changePassword(db, user, body, fault, salt) ==
    IF body.password = Missing \/ body.newPassword = Missing
    THEN Handled(Response(400, "Current password and new password are required"), db)
    ELSE IF Len(body.newPassword) < ChangeMinPassword
    THEN Handled(Response(400, "New password must be at least 6 characters long"), db)
    ELSE LET r == changePassword(db, user.id, body.password, body.newPassword, fault, salt)
         IN  IF r.ok
             THEN Handled(Response(200, "Password changed successfully"), r.db)
             ELSE Handled(Response(400, r.message), r.db)

\* AuthController.getAllAdmins
AuthController_getAllAdmins(db, user, fault) ==
    IF ~isSuperAdminRole(user.role)
    THEN Handled(Response(403, "Super admin access required"), db)
    ELSE LET r == getAllAdmins(db, fault)
         IN  IF r.ok
             THEN Handled([Response(200, "Admins retrieved successfully") EXCEPT
                              !.admins = r.admins], r.db)
             ELSE Handled(Response(500, r.message), r.db)

\* AuthController.getProfile
AuthController_getProfile(db, user, fault) ==
    LET r == getAdminById(db, user.id, fault)
    IN  IF r.err
        THEN Handled(Response(500, "Failed to get admin by ID: store error"), db)
        ELSE IF r.row = NoRow
        THEN Handled(Response(404, "Admin not found"), db)
        ELSE Handled([Response(200, "Profile retrieved successfully") EXCEPT
                         !.admin = toJSON(db[r.row], FALSE)], db)

\* AuthController.updateProfile
AuthController_updateProfile(db, user, body, fault) ==
    LET r == updateAdminProfile(db, user.id, body, fault)
    IN  IF r.ok
        THEN Handled([Response(200, "Profile updated successfully") EXCEPT
                         !.admin = r.admin], r.db)
        ELSE Handled(Response(400, r.message), r.db)

\* AuthController.forgotPassword: `data` is the message of the service's result
AuthController_forgotPassword(db, body, fault) ==
    IF body.email = Missing
    THEN Handled(Response(400, "Email is required"), db)
    ELSE LET r == requestPasswordReset(db, body.email, fault)
         IN  IF r.ok
             THEN Handled([Response(200, "Password reset instructions sent") EXCEPT
                              !.data = r.message], r.db)
             ELSE Handled(Response(500, r.message), r.db)

\* AuthController.deactivateAdmin
AuthController_deactivateAdmin(db, user, id, fault) ==
    IF ~isSuperAdminRole(user.role)
    THEN Handled(Response(403, "Super admin access required"), db)
    ELSE IF isSelf(id, user)
    THEN Handled(Response(400, "Cannot deactivate your own account"), db)
    ELSE LET r == deactivateAdmin(db, id, fault)
         IN  IF r.ok
             THEN Handled(Response(200, "Admin deactivated successfully"), r.db)
             ELSE Handled(Response(500, r.message), r.db)

\* AuthController.activateAdmin
AuthController_activateAdmin(db, user, id, fault) ==
    IF ~isSuperAdminRole(user.role)
    THEN Handled(Response(403, "Super admin access required"), db)
    ELSE LET r == activateAdmin(db, id, fault)
         IN  IF r.ok
             THEN Handled(Response(200, "Admin activated successfully"), r.db)
             ELSE Handled(Response(500, r.message), r.db)

---------------------------------------------------------------------------
(* The clock *)

Tick ==
    /\ now < MaxTime
    /\ now' = now + 1
    /\ UNCHANGED <<store, recs, pend, hist, admitLog, attempts, adminLog, rlReq, rlRes>>
    /\ UNCHANGED authVars
    /\ UNCHANGED domainVars

---------------------------------------------------------------------------
(* Auth layer: requests *)

HeldTokens == {tokens[i] : i \in AdminIds} \ {NoToken}

\* a held token whose role claim was rewritten without the signing secret
Forge(tok) == [tok EXCEPT !.sig = "forged", !.payload.role = "super_admin"]

\* what a client can put in the Authorization header
Headers == {NoToken, Garbage} \cup HeldTokens \cup {Forge(tok) : tok \in HeldTokens}

Hold(tk, response) ==
    IF response.accessToken # NoToken
    THEN [tk EXCEPT ![response.admin.id] = response.accessToken]
    ELSE tk

\* POST /auth/register
Register(username, email, password, role, fault) ==
    LET body == [username |-> username, email |-> email, password |-> password, role |-> role]
        c    == AuthController_register(admins, body, fault, Salt, env.JWT_SECRET, now)
    IN  /\ req = NoRequest
        /\ Len(c.db) <= MaxAdmins
        /\ admins' = c.db
        /\ before' = admins
        /\ tokens' = Hold(tokens, c.res)
        /\ req' = [NoRequest EXCEPT !.route = "register", !.username = username,
                       !.email = email, !.password = password, !.role = role,
                       !.fault = fault, !.at = now]
        /\ res' = c.res
        /\ UNCHANGED <<now, env, store, recs, rlHist, adminRl>>
        /\ UNCHANGED domainVars

\* POST /auth/login
Login(identifier, password, fault) ==
    LET body == [identifier |-> identifier, password |-> password]
        c    == AuthController_login(admins, body, fault, env.JWT_SECRET, now)
    IN  /\ req = NoRequest
        /\ admins' = c.db
        /\ before' = admins
        /\ tokens' = Hold(tokens, c.res)
        /\ req' = [NoRequest EXCEPT !.route = "login", !.identifier = identifier,
                       !.password = password, !.fault = fault, !.at = now]
        /\ res' = c.res
        /\ UNCHANGED <<now, env, store, recs, rlHist, adminRl>>
        /\ UNCHANGED domainVars

\* POST /auth/forgot-password
ForgotPassword(email, fault) ==
    LET c == AuthController_forgotPassword(admins, [email |-> email], fault)
    IN  /\ req = NoRequest
        /\ admins' = c.db
        /\ before' = admins
        /\ req' = [NoRequest EXCEPT !.route = "forgot-password", !.email = email,
                       !.fault = fault, !.at = now]
        /\ res' = c.res
        /\ UNCHANGED <<now, env, tokens, store, recs, rlHist, adminRl>>
        /\ UNCHANGED domainVars

\* a request to any route below router.use(verifyToken) whose token is refused
RejectedToken(header) ==
    LET v == verifyToken(header, env.JWT_SECRET, now)
    IN  /\ req = NoRequest
        /\ v.nextCalls = 0
        /\ before' = admins
        /\ req' = [NoRequest EXCEPT !.route = "protected", !.header = header, !.at = now]
        /\ res' = v
        /\ UNCHANGED <<now, env, admins, tokens, store, recs, rlHist, adminRl>>
        /\ UNCHANGED domainVars

\* POST /auth/change-password, token accepted
ChangePassword(header, currentPassword, newPassword, fault) ==
    LET v    == verifyToken(header, env.JWT_SECRET, now)
        body == [password |-> currentPassword, newPassword |-> newPassword]
        c    == AuthController_changePassword(admins, v.user, body, fault, Salt)
    IN  /\ req = NoRequest
        /\ v.nextCalls = 1
        /\ admins' = c.db
        /\ before' = admins
        /\ req' = [NoRequest EXCEPT !.route = "change-password", !.header = header,
                       !.password = currentPassword, !.newPassword = newPassword,
                       !.fault = fault, !.at = now]
        /\ res' = [c.res EXCEPT !.user = v.user, !.nextCalls = 1]
        /\ UNCHANGED <<now, env, tokens, store, recs, rlHist, adminRl>>
        /\ UNCHANGED domainVars

\* GET /auth/admins, token accepted: verifySuperAdmin, the `general` limiter,
\* then AuthController.getAllAdmins.  The limiter has no skip option, so its
\* finish handler changes nothing.
GetAdmins(header, ip, fault, clean) ==
    LET v  == verifyToken(header, env.JWT_SECRET, now)
        g  == verifySuperAdmin(v.user)
        rl == Limit("general", ip, clean, store, recs, now)
        c  == AuthController_getAllAdmins(admins, v.user, fault)
    IN  /\ req = NoRequest
        /\ v.nextCalls = 1
        /\ before' = admins
        /\ req' = [NoRequest EXCEPT !.route = "admins", !.header = header,
                       !.fault = fault, !.at = now]
        /\ IF g.nextCalls = 0
           THEN /\ res' = [g EXCEPT !.user = v.user, !.nextCalls = 1]
                /\ UNCHANGED <<admins, store, recs>>
           ELSE /\ rl.recs[rl.rid].count <= LimMax + 1
                /\ store' = rl.store
                /\ recs' = rl.recs
                /\ IF rl.nextCalled = 0
                   THEN /\ res' = [Response(429, "Too many API requests, please try again later")
                                      EXCEPT !.user = v.user, !.nextCalls = 1]
                        /\ UNCHANGED admins
                   ELSE /\ res' = [c.res EXCEPT !.user = v.user, !.nextCalls = 1]
                        /\ admins' = c.db
        /\ UNCHANGED <<now, env, tokens, rlHist, adminRl>>
        /\ UNCHANGED domainVars

\* AuthController.deactivateAdmin on a request whose token was accepted
DeactivateAdmin(header, id, fault) ==
    LET v == verifyToken(header, env.JWT_SECRET, now)
        c == AuthController_deactivateAdmin(admins, v.user, id, fault)
    IN  /\ req = NoRequest
        /\ v.nextCalls = 1
        /\ admins' = c.db
        /\ before' = admins
        /\ req' = [NoRequest EXCEPT !.route = "deactivate", !.header = header,
                       !.id = id, !.fault = fault, !.at = now]
        /\ res' = [c.res EXCEPT !.user = v.user, !.nextCalls = 1]
        /\ UNCHANGED <<now, env, tokens, store, recs, rlHist, adminRl>>
        /\ UNCHANGED domainVars

\* AuthController.activateAdmin on a request whose token was accepted
ActivateAdmin(header, id, fault) ==
    LET v == verifyToken(header, env.JWT_SECRET, now)
        c == AuthController_activateAdmin(admins, v.user, id, fault)
    IN  /\ req = NoRequest
        /\ v.nextCalls = 1
        /\ admins' = c.db
        /\ before' = admins
        /\ req' = [NoRequest EXCEPT !.route = "activate", !.header = header,
                       !.id = id, !.fault = fault, !.at = now]
        /\ res' = [c.res EXCEPT !.user = v.user, !.nextCalls = 1]
        /\ UNCHANGED <<now, env, tokens, store, recs, rlHist, adminRl>>
        /\ UNCHANGED domainVars

\* GET /auth/profile and PUT /auth/profile, token accepted: the `general`
\* limiter, then AuthController.getProfile or AuthController.updateProfile
Profile(route, header, ip, username, email, fault, clean) ==
    LET v    == verifyToken(header, env.JWT_SECRET, now)
        rl   == Limit("general", ip, clean, store, recs, now)
        body == [username |-> username, email |-> email]
        c    == IF route = "profile" THEN AuthController_getProfile(admins, v.user, fault)
                ELSE AuthController_updateProfile(admins, v.user, body, fault)
    IN  /\ req = NoRequest
        /\ v.nextCalls = 1
        /\ before' = admins
        /\ req' = [NoRequest EXCEPT !.route = route, !.header = header,
                       !.username = IF route = "profile" THEN Missing ELSE username,
                       !.email = IF route = "profile" THEN Missing ELSE email,
                       !.fault = fault, !.at = now]
        /\ rl.recs[rl.rid].count <= LimMax + 1
        /\ store' = rl.store
        /\ recs' = rl.recs
        /\ IF rl.nextCalled = 0
           THEN /\ res' = [Response(429, "Too many API requests, please try again later")
                              EXCEPT !.user = v.user, !.nextCalls = 1]
                /\ UNCHANGED admins
           ELSE /\ res' = [c.res EXCEPT !.user = v.user, !.nextCalls = 1]
                /\ admins' = c.db
        /\ UNCHANGED <<now, env, tokens, rlHist, adminRl>>
        /\ UNCHANGED domainVars

\* the client has read the response
Deliver ==
    /\ req # NoRequest
    /\ req' = NoRequest
    /\ res' = NoResponse
    /\ before' = admins
    /\ UNCHANGED <<now, env, admins, tokens, store, recs, rlHist, adminRl>>
    /\ UNCHANGED domainVars

\* the clock advances between two requests of the auth layer
AuthTick == req = NoRequest /\ Tick

---------------------------------------------------------------------------
(* Events, registrations, attendance, feedback: data *)

MaxRows == 2        \* rows one table can hold in one behaviour
MaxInflight == 2    \* inserts that can wait for the store at one time

EventIds == {"e1", "e2"}

StudentIds == {"s1", "s2"}

\* the ways a store call can end: it is executed, or the store reports an error
StoreFaults == {"none", "error"}

\* the four tables as they are now
Snapshot == [events |-> events, registrations |-> registrations,
             attendance |-> attendance, feedback |-> feedback]

\* an absent (undefined / null) date or time
NoDate == -1

NoDomainRequest == [op |-> "none", path |-> "", id |-> 0, event_id |-> "", student_id |-> "",
                    status |-> "", rating |-> 0, date |-> 0, fault |-> "none", at |-> 0,
                    sentFree |-> FALSE, check_in_time |-> NoDate, check_out_time |-> NoDate]

\* what a caller gets back: ok for a returned value or a 2xx response, the
\* HTTP status (0 for a service call, which returns or throws), the message
NoStats == [total_feedback |-> 0, average_rating |-> 0,
            rating_distribution |-> [r \in 1..5 |-> 0], satisfaction_rate |-> 0,
            has_distribution |-> FALSE, has_satisfaction_rate |-> FALSE]

Answer(ok, status, message) ==
    [ok |-> ok, status |-> status, message |-> message, rate |-> 0, total |-> 0,
     present |-> 0, stats |-> NoStats, report |-> <<>>]

NoAnswer == Answer(FALSE, 0, "")

\* the id the store gives to a new row of a table
NextRowId(rows) ==
    IF rows = <<>> THEN 1
    ELSE 1 + (CHOOSE m \in {rows[i].id : i \in 1..Len(rows)} :
                 \A i \in 1..Len(rows) : rows[i].id <= m)

\* DELETE ... WHERE id = rowId
DeleteRow(rows, rowId) == SelectSeq(rows, LAMBDA r : r.id # rowId)

\* the rows that `.eq('id', rowId)` matches
RowsById(rows, rowId) == {i \in 1..Len(rows) : rows[i].id = rowId}

---------------------------------------------------------------------------
(* Registrations *)

\* Registration.VALID_STATUSES
RegistrationStatuses == {"confirmed", "cancelled", "waitlisted"}

\* Registration.validateStatus
validateStatus(status) == status \in RegistrationStatuses

\* Registration.create: the message of the Error it throws, "" if it returns
Registration_create(data) ==
    IF data.student_id = Missing THEN "Student ID is required"
    ELSE IF data.event_id = Missing THEN "Event ID is required"
    ELSE IF data.status # Missing /\ ~validateStatus(data.status)
    THEN "Status must be one of: confirmed, cancelled, waitlisted"
    ELSE ""

\* Registration constructor: `data.status || 'confirmed'`
RegistrationStatus(status) == IF status = Missing THEN "confirmed" ELSE status

\* Registration.isActive
isActive(row) == row.status = "confirmed"

\* UNIQUE(event_id, student_id) of the registrations table, never enforced
UniqueRegistration_Off(rows, event_id, student_id) == TRUE

\* UNIQUE(event_id, student_id) of the registrations table
UniqueRegistration(rows, event_id, student_id) ==
    \A i \in 1..Len(rows) : ~(rows[i].event_id = event_id /\ rows[i].student_id = student_id)

\* the store executes `.from('registrations').insert([row])`
InsertRegistration(rows, data, fault) ==
    IF fault # "none"
    THEN [err |-> "store error", rows |-> rows]
    ELSE IF ~UniqueRegistration(rows, data.event_id, data.student_id)
    THEN [err |-> "duplicate key value violates unique constraint", rows |-> rows]
    ELSE [err |-> "",
          rows |-> Append(rows, [id |-> NextRowId(rows), event_id |-> data.event_id,
                                 student_id |-> data.student_id,
                                 status |-> RegistrationStatus(data.status)])]

\* the store executes `.update({status}).eq('id', id).select().single()`
UpdateRegistration(rows, rowId, status, fault) ==
    IF fault # "none" THEN [err |-> "store error", rows |-> rows]
    ELSE IF RowsById(rows, rowId) = {}
    THEN [err |-> "JSON object requested, multiple (or no) rows returned", rows |-> rows]
    ELSE [err |-> "",
          rows |-> [i \in 1..Len(rows) |->
                       IF rows[i].id = rowId THEN [rows[i] EXCEPT !.status = status]
                       ELSE rows[i]]]

\* "handler" is the registerStudent controller and the POST /register route,
\* which run the same statements
RegistrationPaths == {"service", "handler"}

\* The part of a registration handler that runs before its insert is sent:
\* RegistrationService.registerStudentForEvent validates with
\* Registration.create, the registerStudent controller and the POST /register
\* route check that both ids are present.
RegisterBegin(path, event_id, student_id, status) ==
    LET data == [event_id |-> event_id, student_id |-> student_id,
                 status |-> IF path = "service" THEN status ELSE Missing, path |-> path,
                 \* history: no row of the pair was stored when the insert was sent
                 sentFree |-> UniqueRegistration(registrations, event_id, student_id)]
        bad  == IF path = "service" THEN Registration_create(data)
                ELSE IF event_id = Missing \/ student_id = Missing
                THEN "Missing event_id or student_id" ELSE ""
    IN  /\ dreq' = [NoDomainRequest EXCEPT !.op = "register", !.path = path,
                       !.event_id = event_id, !.student_id = student_id,
                       !.status = data.status, !.at = now]
        /\ prev' = Snapshot
        /\ IF bad # ""
           THEN /\ dres' = IF path = "service"
                           THEN Answer(FALSE, 0, Wrap("Failed to register student for event", bad))
                           ELSE Answer(FALSE, 400, bad)
                /\ UNCHANGED inflight
           ELSE /\ BagCardinality(inflight) < MaxInflight
                /\ inflight' = inflight (+) SetToBag({data})
                /\ dres' = NoAnswer
        /\ UNCHANGED <<now, store, recs, rlHist, adminRl, authVars>>
        /\ UNCHANGED <<proc, events, registrations, attendance, feedback>>

\* The store executes the insert of a waiting registration handler and the
\* handler answers.
RegisterInsert(data, fault) ==
    /\ BagIn(data, inflight)
    /\ LET r == InsertRegistration(registrations, data, fault)
       IN  /\ Len(r.rows) <= MaxRows
           /\ registrations' = r.rows
           /\ inflight' = inflight (-) SetToBag({data})
           /\ prev' = Snapshot
           /\ dreq' = [NoDomainRequest EXCEPT !.op = "insert-registration", !.path = data.path,
                          !.event_id = data.event_id, !.student_id = data.student_id,
                          !.status = data.status, !.fault = fault, !.at = now,
                          !.sentFree = data.sentFree]
           /\ dres' = IF r.err = "" THEN Answer(TRUE, IF data.path = "service" THEN 0 ELSE 200, "")
                      ELSE IF data.path = "service"
                      THEN Answer(FALSE, 0, Wrap("Failed to register student for event", r.err))
                      ELSE Answer(FALSE, 400, r.err)
    /\ UNCHANGED <<now, store, recs, rlHist, adminRl, authVars>>
    /\ UNCHANGED <<proc, events, attendance, feedback>>

\* RegistrationService.cancelRegistration / updateRegistrationStatus
UpdateRegistrationStatus(op, rowId, status, fault) ==
    LET valid == op = "cancel" \/ status \in RegistrationStatuses
        r     == UpdateRegistration(registrations, rowId,
                                    IF op = "cancel" THEN "cancelled" ELSE status, fault)
    IN  /\ dreq' = [NoDomainRequest EXCEPT !.op = op, !.path = "service", !.id = rowId,
                       !.status = status, !.fault = fault, !.at = now]
        /\ prev' = Snapshot
        /\ IF ~valid
           THEN /\ dres' = Answer(FALSE, 0, Wrap("Failed to update registration status",
                                                   "Invalid status"))
                /\ UNCHANGED registrations
           ELSE /\ registrations' = r.rows
                /\ dres' = IF r.err = "" THEN Answer(TRUE, 0, "")
                           ELSE Answer(FALSE, 0, Wrap(IF op = "cancel"
                                                      THEN "Failed to cancel registration"
                                                      ELSE "Failed to update registration status",
                                                      r.err))
        /\ UNCHANGED <<now, store, recs, rlHist, adminRl, authVars>>
        /\ UNCHANGED <<proc, events, attendance, feedback, inflight>>

\* RegistrationService.deleteRegistration
DeleteRegistration(rowId, fault) ==
    /\ dreq' = [NoDomainRequest EXCEPT !.op = "delete-registration", !.path = "service",
                   !.id = rowId, !.fault = fault, !.at = now]
    /\ prev' = Snapshot
    /\ IF fault # "none"
       THEN /\ dres' = Answer(FALSE, 0, Wrap("Failed to delete registration", "store error"))
            /\ UNCHANGED registrations
       ELSE /\ registrations' = DeleteRow(registrations, rowId)
            /\ dres' = Answer(TRUE, 0, "")
    /\ UNCHANGED <<now, store, recs, rlHist, adminRl, authVars>>
    /\ UNCHANGED <<proc, events, attendance, feedback, inflight>>

---------------------------------------------------------------------------
(* Events *)

\* the dates a creation request can carry, on the scale of the clock
Dates == 0..(MaxTime + 1)

\* Event.validateDate: `eventDate > now`
validateDate(date, t) == date > t

\* Event.create, with every field but the date well-formed: the message of
\* the Error it throws, "" if it returns
Event_create(data, t) ==
    IF data.date = NoDate \/ ~validateDate(data.date, t)
    THEN "Event date must be in the future"
    ELSE ""

\* createEventSchema.date: Joi.date().iso().min('now').required(); Joi's min
\* accepts a date equal to the limit
createEventSchema_date(date, t) ==
    IF date = NoDate THEN "Event date is required"
    ELSE IF ~(date >= t) THEN "Event date must be in the future"
    ELSE ""

\* the store executes `.from('events').insert([row])`
InsertEvent(rows, data, fault, t) ==
    IF fault # "none"
    THEN [err |-> "store error", rows |-> rows]
    ELSE [err |-> "",
          rows |-> Append(rows, [id |-> NextRowId(rows), date |-> data.date, created_at |-> t,
                                 college_id |-> data.college_id,
                                 max_attendees |-> data.max_attendees])]

\* "service" is EventService.createEvent, "schema" is
\* EventValidators.validateCreateEvent, "handler" is the createEvent
\* controller, which is the handler of POST /events
EventPaths == {"service", "schema", "handler"}

\* A request to create an event, with every field but the date well-formed
CreateEventWith(path, date, college_id, max_attendees, fault) ==
    LET data == [date |-> date, college_id |-> college_id, max_attendees |-> max_attendees]
        bad  == IF path = "service" THEN Event_create(data, now)
                ELSE IF path = "schema" THEN createEventSchema_date(date, now)
                ELSE IF date = NoDate THEN "Missing required fields" ELSE ""
        r    == InsertEvent(events, data, fault, now)
    IN  /\ dreq' = [NoDomainRequest EXCEPT !.op = "create-event", !.path = path,
                       !.date = date, !.fault = fault, !.at = now]
        /\ prev' = Snapshot
        /\ IF bad # ""
           THEN /\ dres' = IF path = "service"
                           THEN Answer(FALSE, 0, Wrap("Failed to create event", bad))
                           ELSE Answer(FALSE, 400, bad)
                /\ UNCHANGED events
           ELSE IF path = "schema"
           THEN /\ dres' = Answer(TRUE, 0, "")
                /\ UNCHANGED events
           ELSE /\ Len(r.rows) <= MaxRows
                /\ events' = r.rows
                /\ dres' = IF r.err = ""
                           THEN Answer(TRUE, IF path = "service" THEN 0 ELSE 200, "")
                           ELSE IF path = "service"
                           THEN Answer(FALSE, 0, Wrap("Failed to create event", r.err))
                           ELSE Answer(FALSE, 400, r.err)
        /\ UNCHANGED <<now, store, recs, rlHist, adminRl, authVars>>
        /\ UNCHANGED <<proc, registrations, attendance, feedback, inflight>>

\* the same request for an event of college 1 with one seat
CreateEvent(path, date, fault) == CreateEventWith(path, date, 1, 1, fault)

---------------------------------------------------------------------------
(* Feedback *)

MaxFeedback == 3    \* rows the feedback table can hold in one behaviour

\* Ratings are written in tenths, so that 3.5 is the number 35; the feedback
\* table stores whole ratings.
NoRating == -1

RatingInputs == {NoRating, 0, 30, 35, 40, 50, 60}

\* Feedback.MIN_RATING, Feedback.MAX_RATING
MIN_RATING == 1

MAX_RATING == 5

\* Number.isInteger
isInteger(tenths) == tenths % 10 = 0

\* Feedback.validateRating
validateRating(tenths) ==
    isInteger(tenths) /\ tenths >= 10 * MIN_RATING /\ tenths <= 10 * MAX_RATING

\* Feedback.create, with every field but the rating well-formed: the message
\* of the Error it throws, "" if it returns
Feedback_create(data) ==
    IF data.rating = NoRating \/ data.rating = 0 \/ ~validateRating(data.rating)
    THEN "Rating must be an integer between 1 and 5"
    ELSE ""

\* the checks of submitFeedback and of POST /feedback before their insert
submitFeedback_check(data) ==
    IF data.rating = NoRating THEN "Missing event_id, student_id or rating"
    ELSE IF data.rating < 10 \/ data.rating > 50 THEN "Rating must be between 1 and 5"
    ELSE ""

\* column `rating INT CHECK (rating BETWEEN 1 AND 5)` of the feedback table
RatingColumn(tenths) == isInteger(tenths) /\ tenths >= 10 /\ tenths <= 50

\* UNIQUE(event_id, student_id) of the feedback table
UniqueFeedback(rows, event_id, student_id) ==
    \A i \in 1..Len(rows) : ~(rows[i].event_id = event_id /\ rows[i].student_id = student_id)

\* the store executes `.from('feedback').insert([row])`
InsertFeedback(rows, data, fault) ==
    IF fault # "none"
    THEN [err |-> "store error", rows |-> rows]
    ELSE IF ~isInteger(data.rating)
    THEN [err |-> "invalid input syntax for type integer", rows |-> rows]
    ELSE IF ~RatingColumn(data.rating)
    THEN [err |-> "new row violates check constraint", rows |-> rows]
    ELSE IF ~UniqueFeedback(rows, data.event_id, data.student_id)
    THEN [err |-> "duplicate key value violates unique constraint", rows |-> rows]
    ELSE [err |-> "",
          rows |-> Append(rows, [id |-> NextRowId(rows), event_id |-> data.event_id,
                                 student_id |-> data.student_id,
                                 rating |-> data.rating \div 10])]

\* the store executes `.from('feedback').update(updateData).eq('id', id).select().single()`
UpdateFeedbackRow(rows, rowId, rating, fault) ==
    IF fault # "none" THEN [err |-> "store error", rows |-> rows]
    ELSE IF rating # NoRating /\ ~isInteger(rating)
    THEN [err |-> "invalid input syntax for type integer", rows |-> rows]
    ELSE IF RowsById(rows, rowId) = {}
    THEN [err |-> "JSON object requested, multiple (or no) rows returned", rows |-> rows]
    ELSE IF rating # NoRating /\ ~RatingColumn(rating)
    THEN [err |-> "new row violates check constraint", rows |-> rows]
    ELSE [err |-> "",
          rows |-> [i \in 1..Len(rows) |->
                       IF rows[i].id = rowId /\ rating # NoRating
                       THEN [rows[i] EXCEPT !.rating = rating \div 10]
                       ELSE rows[i]]]

\* "service" is FeedbackService.createFeedback, "handler" is the
\* submitFeedback controller and the POST /feedback route, which run the same
\* statements
FeedbackPaths == {"service", "handler"}

\* A request to create a feedback row
CreateFeedback(path, event_id, student_id, rating, fault) ==
    LET data == [event_id |-> event_id, student_id |-> student_id, rating |-> rating]
        bad  == IF path = "service" THEN Feedback_create(data) ELSE submitFeedback_check(data)
        r    == InsertFeedback(feedback, data, fault)
    IN  /\ dreq' = [NoDomainRequest EXCEPT !.op = "create-feedback", !.path = path,
                       !.event_id = event_id, !.student_id = student_id,
                       !.rating = rating, !.fault = fault, !.at = now]
        /\ prev' = Snapshot
        /\ IF bad # ""
           THEN /\ dres' = IF path = "service"
                           THEN Answer(FALSE, 0, Wrap("Failed to create feedback", bad))
                           ELSE Answer(FALSE, 400, bad)
                /\ UNCHANGED feedback
           ELSE /\ Len(r.rows) <= MaxFeedback
                /\ feedback' = r.rows
                /\ dres' = IF r.err = ""
                           THEN Answer(TRUE, IF path = "service" THEN 0 ELSE 200, "")
                           ELSE IF path = "service"
                           THEN Answer(FALSE, 0, Wrap("Failed to create feedback", r.err))
                           ELSE Answer(FALSE, 400, r.err)
        /\ UNCHANGED <<now, store, recs, rlHist, adminRl, authVars>>
        /\ UNCHANGED <<proc, events, registrations, attendance, inflight>>

\* FeedbackService.updateFeedback(feedbackId, {rating}).  The guard calls
\* Feedback.isValidRating, which the Feedback class does not define (its
\* method is validateRating): for every truthy rating the call throws a
\* TypeError, which the catch block wraps.
UpdateFeedback(rowId, rating, fault) ==
    LET truthy == rating # NoRating /\ rating # 0
        r      == UpdateFeedbackRow(feedback, rowId, rating, fault)
    IN  /\ dreq' = [NoDomainRequest EXCEPT !.op = "update-feedback", !.path = "service",
                       !.id = rowId, !.rating = rating, !.fault = fault, !.at = now]
        /\ prev' = Snapshot
        /\ IF truthy
           THEN /\ dres' = Answer(FALSE, 0, Wrap("Failed to update feedback",
                                                 "Feedback.isValidRating is not a function"))
                /\ UNCHANGED feedback
           ELSE /\ feedback' = r.rows
                /\ dres' = IF r.err = "" THEN Answer(TRUE, 0, "")
                           ELSE Answer(FALSE, 0, Wrap("Failed to update feedback", r.err))
        /\ UNCHANGED <<now, store, recs, rlHist, adminRl, authVars>>
        /\ UNCHANGED <<proc, events, registrations, attendance, inflight>>

---------------------------------------------------------------------------
(* Feedback statistics.  Averages and rates are written in hundredths, so
   that 4.00 is the number 400 and 66.67 the number 6667. *)

\* `Number((num / den).toFixed(2))`, cut off after two decimals instead
toFixed2_Truncate(num, den) == (100 * num) \div den

\* `Number((num / den).toFixed(2))` for num >= 0 and den > 0: the nearest
\* number with two decimals
toFixed2(num, den) == (200 * num + den) \div (2 * den)

\* `data.reduce((sum, feedback) => sum + feedback.rating, 0)`
RECURSIVE totalRating(_)
totalRating(data) == IF data = <<>> THEN 0 ELSE Head(data).rating + totalRating(Tail(data))

\* `data.forEach(feedback => { stats.rating_distribution[feedback.rating]++; })`
RECURSIVE forEachRating(_, _)
forEachRating(data, distribution) ==
    IF data = <<>> THEN distribution
    ELSE forEachRating(Tail(data),
                       [distribution EXCEPT ![Head(data).rating] = @ + 1])

\* `.eq('event_id', eventId)`
OfEvent(rows, event_id) == SelectSeq(rows, LAMBDA r : r.event_id = event_id)

\* FeedbackService.getOverallFeedbackStats without filters, after its query
getOverallFeedbackStats(data) ==
    LET distribution   == forEachRating(data, [r \in 1..5 |-> 0])
        satisfiedCount == distribution[4] + distribution[5]
    IN  [total_feedback |-> Len(data),
         average_rating |-> IF Len(data) > 0 THEN toFixed2(totalRating(data), Len(data)) ELSE 0,
         rating_distribution |-> IF Len(data) > 0 THEN distribution ELSE [r \in 1..5 |-> 0],
         satisfaction_rate |-> IF Len(data) > 0
                               THEN toFixed2(satisfiedCount * 100, Len(data)) ELSE 0,
         has_distribution |-> TRUE,
         has_satisfaction_rate |-> TRUE]

\* FeedbackService.getEventFeedbackStats, after its query: it has no
\* satisfaction_rate
getEventFeedbackStats(data) ==
    [total_feedback |-> Len(data),
     average_rating |-> IF Len(data) > 0 THEN toFixed2(totalRating(data), Len(data)) ELSE 0,
     rating_distribution |-> IF Len(data) > 0 THEN forEachRating(data, [r \in 1..5 |-> 0])
                             ELSE [r \in 1..5 |-> 0],
     satisfaction_rate |-> 0,
     has_distribution |-> TRUE,
     has_satisfaction_rate |-> FALSE]

\* feedbackAverage and GET /reports/feedback/:event_id, after their query:
\* average_rating and count only
feedbackAverage(data) ==
    [total_feedback |-> Len(data),
     average_rating |-> IF Len(data) # 0 THEN toFixed2(totalRating(data), Len(data)) ELSE 0,
     rating_distribution |-> [r \in 1..5 |-> 0],
     satisfaction_rate |-> 0,
     has_distribution |-> FALSE,
     has_satisfaction_rate |-> FALSE]

StatsOps == {"overall-stats", "event-stats", "feedback-average"}

\* A request for feedback statistics: one query, then the computation
FeedbackStats(op, event_id, fault) ==
    LET data  == IF op = "overall-stats" THEN feedback ELSE OfEvent(feedback, event_id)
        stats == IF op = "overall-stats" THEN getOverallFeedbackStats(data)
                 ELSE IF op = "event-stats" THEN getEventFeedbackStats(data)
                 ELSE feedbackAverage(data)
    IN  /\ dreq' = [NoDomainRequest EXCEPT !.op = op,
                       !.path = IF op = "feedback-average" THEN "handler" ELSE "service",
                       !.event_id = IF op = "overall-stats" THEN Missing ELSE event_id,
                       !.fault = fault, !.at = now]
        /\ prev' = Snapshot
        /\ dres' = IF fault # "none"
                   THEN IF op = "feedback-average" THEN Answer(FALSE, 400, "store error")
                        ELSE Answer(FALSE, 0,
                                    Wrap(IF op = "overall-stats"
                                         THEN "Failed to fetch overall feedback stats"
                                         ELSE "Failed to fetch event feedback stats",
                                         "store error"))
                   ELSE [Answer(TRUE, IF op = "feedback-average" THEN 200 ELSE 0, "")
                            EXCEPT !.stats = stats]
        /\ UNCHANGED <<now, store, recs, rlHist, adminRl, authVars>>
        /\ UNCHANGED <<proc, events, registrations, attendance, feedback, inflight>>

---------------------------------------------------------------------------
(* Attendance and the attendance rate.  Rates are written in hundredths. *)

AttendanceStatuses == {"Present", "Absent"}
StatusInputs == {Missing, "Present", "Absent", "late"}

\* column `status TEXT CHECK (status IN ('Present','Absent'))`
StatusColumn(status) == status \in AttendanceStatuses

\* UNIQUE(event_id, student_id) of the attendance table
UniqueAttendance(rows, event_id, student_id) ==
    \A i \in 1..Len(rows) : ~(rows[i].event_id = event_id /\ rows[i].student_id = student_id)

\* the store executes `.from('attendance').insert([{event_id, student_id, status}])`
InsertAttendance(rows, data, fault) ==
    IF fault # "none" THEN [err |-> "store error", rows |-> rows]
    ELSE IF ~StatusColumn(data.status)
    THEN [err |-> "new row violates check constraint", rows |-> rows]
    ELSE IF ~UniqueAttendance(rows, data.event_id, data.student_id)
    THEN [err |-> "duplicate key value violates unique constraint", rows |-> rows]
    ELSE [err |-> "",
          rows |-> Append(rows, [id |-> NextRowId(rows), event_id |-> data.event_id,
                                 student_id |-> data.student_id, status |-> data.status])]

\* POST /attendance
MarkAttendance(event_id, student_id, status, fault) ==
    LET data == [event_id |-> event_id, student_id |-> student_id, status |-> status]
        bad  == IF event_id = Missing \/ student_id = Missing \/ status = Missing
                THEN "Missing event_id, student_id or status"
                ELSE IF status \notin {"Present", "Absent"} THEN "Invalid status" ELSE ""
        r    == InsertAttendance(attendance, data, fault)
    IN  /\ dreq' = [NoDomainRequest EXCEPT !.op = "mark-attendance", !.path = "handler",
                       !.event_id = event_id, !.student_id = student_id,
                       !.status = status, !.fault = fault, !.at = now]
        /\ prev' = Snapshot
        /\ IF bad # ""
           THEN /\ dres' = Answer(FALSE, 400, bad)
                /\ UNCHANGED attendance
           ELSE /\ Len(r.rows) <= MaxRows
                /\ attendance' = r.rows
                /\ dres' = IF r.err = "" THEN Answer(TRUE, 200, "")
                           ELSE Answer(FALSE, 400, r.err)
        /\ UNCHANGED <<now, store, recs, rlHist, adminRl, authVars>>
        /\ UNCHANGED <<proc, events, registrations, feedback, inflight>>

\* what `data` is in the answer of a select with `head: true`: no rows are
\* returned, the number of rows is in `count`
HeadData == Missing

\* `data?.length ? data.length : data?.count ?? data?.[0]?.count ?? err?.count ?? 0`
\* of GET /reports/attendance/:event_id, for the `data` of a head request and
\* no error
CountFromData(data) == IF data = Missing THEN 0 ELSE Len(data)

\* attendancePercentage: the counts of the two head requests
attendancePercentage(regs, att, event_id) ==
    LET totalCount   == Len(SelectSeq(regs, LAMBDA r : r.event_id = event_id))
        presentCount == Len(SelectSeq(att, LAMBDA r : r.event_id = event_id
                                                      /\ r.status = "Present"))
    IN  [total   |-> totalCount,
         present |-> presentCount,
         rate    |-> IF totalCount = 0 THEN 0 ELSE toFixed2(presentCount * 100, totalCount)]

\* GET /reports/attendance/:event_id: the counts are taken from `data`
attendanceRoute(regs, att, event_id) ==
    LET totalCount   == CountFromData(HeadData)
        presentCount == CountFromData(HeadData)
    IN  [total   |-> totalCount,
         present |-> presentCount,
         rate    |-> IF totalCount = 0 THEN 0 ELSE toFixed2(presentCount * 100, totalCount)]

\* AttendanceService.getEventAttendanceSummary without a date: the
\* attendance records of the event are the total
getEventAttendanceSummary(att, event_id) ==
    LET data    == SelectSeq(att, LAMBDA r : r.event_id = event_id)
        present == Len(SelectSeq(data, LAMBDA r : r.status = "present"))
        late    == Len(SelectSeq(data, LAMBDA r : r.status = "late"))
    IN  [total   |-> Len(data),
         present |-> present,
         rate    |-> IF Len(data) > 0 THEN toFixed2((present + late) * 100, Len(data)) ELSE 0]

RateOps == {"attendance-percentage", "attendance-route", "attendance-summary"}

\* A request for the attendance rate of an event
AttendanceRate(op, event_id, fault) ==
    LET r == IF op = "attendance-percentage"
             THEN attendancePercentage(registrations, attendance, event_id)
             ELSE IF op = "attendance-route"
             THEN attendanceRoute(registrations, attendance, event_id)
             ELSE getEventAttendanceSummary(attendance, event_id)
    IN  /\ dreq' = [NoDomainRequest EXCEPT !.op = op,
                       !.path = IF op = "attendance-summary" THEN "service" ELSE "handler",
                       !.event_id = event_id, !.fault = fault, !.at = now]
        /\ prev' = Snapshot
        /\ dres' = IF fault # "none"
                   THEN IF op = "attendance-summary"
                        THEN Answer(FALSE, 0, Wrap("Failed to fetch event attendance summary",
                                                   "store error"))
                        ELSE Answer(FALSE, 400, "store error")
                   ELSE [Answer(TRUE, IF op = "attendance-summary" THEN 0 ELSE 200, "")
                            EXCEPT !.rate = r.rate, !.total = r.total, !.present = r.present]
        /\ UNCHANGED <<now, store, recs, rlHist, adminRl, authVars>>
        /\ UNCHANGED <<proc, events, registrations, attendance, feedback, inflight>>

---------------------------------------------------------------------------
(* AttendanceService and the Attendance record.  The service reads and
   writes the columns id, student_id, event_id, status, check_in_time and
   check_out_time; a row also remembers, as history, the status its caller
   supplied. *)

DayLength == 2      \* clock units in one calendar day

\* `new Date().toISOString().split('T')[0]`
Day(t) == t \div DayLength

\* Attendance.create: the message of the Error it throws, "" if it returns
Attendance_create(data) ==
    IF data.student_id = Missing THEN "Student ID is required"
    ELSE IF data.event_id = Missing THEN "Event ID is required"
    ELSE ""

\* new Attendance(data).toJSON(): the constructor copies student_id,
\* event_id, attended and the times, and nothing else
Attendance_toJSON(data) ==
    [student_id |-> data.student_id, event_id |-> data.event_id, status |-> Missing,
     check_in_time |-> data.check_in_time, check_out_time |-> data.check_out_time]

\* markAttendanceValidator: the message of its first error, "" if it passes,
\* and the value it yields (check_in_time defaults to now)
markAttendanceValidator(data, t) ==
    LET cin == IF data.check_in_time = NoDate THEN t ELSE data.check_in_time
    IN  [err |-> IF data.status = Missing THEN "Attendance status is required"
                 ELSE IF data.status \notin {"present", "absent", "late"}
                 THEN "Status must be one of: present, absent, late"
                 ELSE IF data.check_out_time # NoDate /\ data.check_out_time < cin
                 THEN "Check-out time must be after check-in time"
                 ELSE "",
         value |-> [data EXCEPT !.check_in_time = cin]]

\* AttendanceService.getStudentEventAttendance with a date: the indexes of
\* the rows of the pair whose check_in_time lies in that day
getStudentEventAttendance(rows, student_id, event_id, day) ==
    {i \in 1..Len(rows) :
        /\ rows[i].student_id = student_id
        /\ rows[i].event_id = event_id
        /\ rows[i].check_in_time # NoDate
        /\ Day(rows[i].check_in_time) = day}

\* `.order('check_in_time', { ascending: false })` then `[0]`: the rows that
\* can come first
LatestOf(rows, S) == {i \in S : \A j \in S : rows[j].check_in_time <= rows[i].check_in_time}

\* AttendanceService.markAttendance after validation: what it throws before
\* the insert, "" if it reaches the insert
markAttendance_check(rows, data, t) ==
    LET bad == Attendance_create(data)
    IN  IF bad # "" THEN bad
        ELSE IF data.status = "present"
                /\ getStudentEventAttendance(rows, data.student_id, data.event_id, Day(t)) # {}
        THEN "Student already checked in for this event today"
        ELSE ""

\* the store executes `.from('attendance').insert([attendance.toJSON()])`
InsertAttendanceRecord(rows, data) ==
    Append(rows, Attendance_toJSON(data) @@ [id |-> NextRowId(rows), marked |-> data.status])

AttendanceServicePaths == {"service", "validated"}

\* AttendanceService.markAttendance, called directly or behind
\* markAttendanceValidator
MarkAttendanceRecord(path, event_id, student_id, status, cin, cout, fault) ==
    LET body == [event_id |-> event_id, student_id |-> student_id, status |-> status,
                 check_in_time |-> cin, check_out_time |-> cout]
        v    == markAttendanceValidator(body, now)
        data == IF path = "validated" THEN v.value ELSE body
        bad  == markAttendance_check(attendance, data, now)
    IN  /\ dreq' = [NoDomainRequest EXCEPT !.op = "markAttendance", !.path = path,
                       !.event_id = event_id, !.student_id = student_id,
                       !.status = status, !.check_in_time = cin,
                       !.check_out_time = cout, !.fault = fault, !.at = now]
        /\ prev' = Snapshot
        /\ IF path = "validated" /\ v.err # ""
           THEN /\ dres' = Answer(FALSE, 400, v.err)
                /\ UNCHANGED attendance
           ELSE IF bad # ""
           THEN /\ dres' = Answer(FALSE, 0, Wrap("Failed to mark attendance", bad))
                /\ UNCHANGED attendance
           ELSE IF fault # "none"
           THEN /\ dres' = Answer(FALSE, 0, Wrap("Failed to mark attendance", "store error"))
                /\ UNCHANGED attendance
           ELSE /\ Len(attendance) < MaxRows
                /\ attendance' = InsertAttendanceRecord(attendance, data)
                /\ dres' = Answer(TRUE, 0, "")
        /\ UNCHANGED <<now, store, recs, rlHist, adminRl, authVars>>
        /\ UNCHANGED <<proc, events, registrations, feedback, inflight>>

\* AttendanceService.updateAttendance: the update data goes to the store as
\* it is; a field that is not in it is NoDate
UpdateAttendanceRecord(rowId, cin, cout, fault) ==
    LET S == RowsById(attendance, rowId)
    IN  /\ dreq' = [NoDomainRequest EXCEPT !.op = "updateAttendance", !.path = "service",
                       !.id = rowId, !.check_in_time = cin, !.check_out_time = cout,
                       !.fault = fault, !.at = now]
        /\ prev' = Snapshot
        /\ IF fault # "none"
           THEN /\ dres' = Answer(FALSE, 0, Wrap("Failed to update attendance", "store error"))
                /\ UNCHANGED attendance
           ELSE IF S = {}
           THEN /\ dres' = Answer(FALSE, 0,
                                  Wrap("Failed to update attendance",
                                       "JSON object requested, multiple (or no) rows returned"))
                /\ UNCHANGED attendance
           ELSE /\ attendance' =
                      [i \in 1..Len(attendance) |->
                          IF i \in S
                          THEN [attendance[i] EXCEPT
                                   !.check_in_time = IF cin # NoDate THEN cin ELSE @,
                                   !.check_out_time = IF cout # NoDate THEN cout ELSE @]
                          ELSE attendance[i]]
                /\ dres' = Answer(TRUE, 0, "")
        /\ UNCHANGED <<now, store, recs, rlHist, adminRl, authVars>>
        /\ UNCHANGED <<proc, events, registrations, feedback, inflight>>

\* AttendanceService.checkOutStudent
CheckOutStudent(student_id, event_id, fault) ==
    LET S       == getStudentEventAttendance(attendance, student_id, event_id, Day(now))
        context == "Failed to check out student"
    IN  /\ dreq' = [NoDomainRequest EXCEPT !.op = "checkOutStudent", !.path = "service",
                       !.event_id = event_id, !.student_id = student_id,
                       !.fault = fault, !.at = now]
        /\ prev' = Snapshot
        /\ IF fault # "none"
           THEN /\ dres' = Answer(FALSE, 0,
                                  Wrap(context, "Failed to fetch student event attendance: store error"))
                /\ UNCHANGED attendance
           ELSE IF S = {}
           THEN /\ dres' = Answer(FALSE, 0, Wrap(context, "No check-in record found for today"))
                /\ UNCHANGED attendance
           ELSE \E i \in LatestOf(attendance, S) :
                   IF attendance[i].check_out_time # NoDate
                   THEN /\ dres' = Answer(FALSE, 0, Wrap(context, "Student already checked out"))
                        /\ UNCHANGED attendance
                   ELSE /\ attendance' = [attendance EXCEPT ![i].check_out_time = now]
                        /\ dres' = Answer(TRUE, 0, "")
        /\ UNCHANGED <<now, store, recs, rlHist, adminRl, authVars>>
        /\ UNCHANGED <<proc, events, registrations, feedback, inflight>>

---------------------------------------------------------------------------
(* Event capacity *)

\* the id of an event row as the rows of the other tables hold it
EventIdOf(row) == IF row.id = 1 THEN "e1" ELSE "e2"

\* `.select('*', { count: 'exact' }).eq('event_id', eventId).eq('status', 'confirmed')`
ConfirmedCount(regs, eventId) ==
    Cardinality({i \in 1..Len(regs) : regs[i].event_id = eventId /\ regs[i].status = "confirmed"})

\* Event.isFull, with >= read as >
isFull_Above(max_attendees, currentAttendees) == currentAttendees > max_attendees

\* Event.isFull, the comparison of EventService.isEventFull
isFull(max_attendees, currentAttendees) == currentAttendees >= max_attendees

\* Math.max(0, event.max_attendees - count)
AvailableSpots(max_attendees, count) ==
    IF max_attendees - count > 0 THEN max_attendees - count ELSE 0

CapacityOps == {"isEventFull", "getAvailableSpots"}

\* EventService.isEventFull / getAvailableSpots
EventCapacity(op, eventId, fault) ==
    LET found == {i \in 1..Len(events) : EventIdOf(events[i]) = eventId}
        count == ConfirmedCount(registrations, eventId)
        context == IF op = "isEventFull" THEN "Failed to check if event is full"
                   ELSE "Failed to get available spots"
    IN  /\ dreq' = [NoDomainRequest EXCEPT !.op = op, !.path = "service",
                       !.event_id = eventId, !.fault = fault, !.at = now]
        /\ prev' = Snapshot
        /\ dres' = IF found = {}
                   THEN Answer(FALSE, 0, Wrap(context, Wrap("Failed to fetch event",
                            "JSON object requested, multiple (or no) rows returned")))
                   ELSE IF fault # "none"
                   THEN Answer(FALSE, 0, Wrap(context, "store error"))
                   ELSE LET event == events[CHOOSE i \in found : TRUE]
                        IN  [Answer(TRUE, 0, "") EXCEPT
                                !.report = [full  |-> isFull(event.max_attendees, count),
                                            spots |-> AvailableSpots(event.max_attendees, count)]]
        /\ UNCHANGED <<now, store, recs, rlHist, adminRl, authVars>>
        /\ UNCHANGED <<proc, events, registrations, attendance, feedback, inflight>>

---------------------------------------------------------------------------
(* ReportService *)

CollegeIds == {1, 5}

\* the rows of the `students` table
Students == <<[id |-> "s1", college_id |-> 1], [id |-> "s2", college_id |-> 5]>>

\* `.from('students').select('college_id')`: the rows carry no other column
SelectCollegeId(students) ==
    [i \in 1..Len(students) |-> [college_id |-> students[i].college_id, id |-> Missing]]

\* `.select('id').in('student_id', ids)` and then `data ? data.length : 0`
CountOfStudents(rows, ids) == Cardinality({i \in 1..Len(rows) : rows[i].student_id \in ids})

\* ReportService.generateCollegeStatsReport without a college filter, after
\* its first query
generateCollegeStatsReport(students, regs, att, fb) ==
    LET selected   == SelectCollegeId(students)
        OfCollege(cId) == {i \in 1..Len(selected) : selected[i].college_id = cId}
        colleges   == {selected[i].college_id : i \in 1..Len(selected)}
        IdsOf(cId) == {selected[i].id : i \in OfCollege(cId)}
    IN  [college_statistics |->
            [cId \in colleges |->
                [total_students       |-> Cardinality(OfCollege(cId)),
                 active_registrations |-> CountOfStudents(regs, IdsOf(cId)),
                 total_attendance     |-> CountOfStudents(att, IdsOf(cId)),
                 total_feedback       |-> CountOfStudents(fb, IdsOf(cId))]],
         summary |-> [total_colleges |-> Cardinality(colleges),
                      total_students |-> Len(selected)]]

\* ReportService.generateCollegeStatsReport
CollegeStatsReport(fault) ==
    /\ dreq' = [NoDomainRequest EXCEPT !.op = "college-stats", !.path = "service",
                   !.fault = fault, !.at = now]
    /\ prev' = Snapshot
    /\ dres' = IF fault # "none"
               THEN Answer(FALSE, 0, Wrap("Failed to generate college stats report", "store error"))
               ELSE [Answer(TRUE, 0, "") EXCEPT
                        !.report = generateCollegeStatsReport(Students, registrations,
                                                              attendance, feedback)]
    /\ UNCHANGED <<now, store, recs, rlHist, adminRl, authVars>>
    /\ UNCHANGED <<proc, events, registrations, attendance, feedback, inflight>>

\* a college filter that is not given (null)
NoCollege == 0

\* the argument generateDashboardReport passes to getUpcomingEvents
DashboardUpcomingArg == 5

\* EventService.getUpcomingEvents(collegeId): the indexes of the rows with
\* date >= now, of that college if one is given
getUpcomingEvents(rows, collegeId, t) ==
    {i \in 1..Len(rows) :
        /\ rows[i].date >= t
        /\ collegeId # NoCollege => rows[i].college_id = collegeId}

\* `.order('date', { ascending: true })`: the orders the store can return the
\* rows S in
AscendingByDate(rows, S) ==
    {f \in [1..Cardinality(S) -> S] :
        /\ \A a, b \in 1..Cardinality(S) : a # b => f[a] # f[b]
        /\ \A a, b \in 1..Cardinality(S) : a < b => rows[f[a]].date <= rows[f[b]].date}

\* ReportService.generateDashboardReport: its counts, and its upcoming events
DashboardReport(fault) ==
    LET S == getUpcomingEvents(events, DashboardUpcomingArg, now)
    IN  /\ dreq' = [NoDomainRequest EXCEPT !.op = "dashboard", !.path = "service",
                       !.fault = fault, !.at = now]
        /\ prev' = Snapshot
        /\ IF fault # "none"
           THEN dres' = Answer(FALSE, 0,
                               Wrap("Failed to generate dashboard report",
                                    "Failed to fetch upcoming events: store error"))
           ELSE \E f \in AscendingByDate(events, S) :
                   dres' = [Answer(TRUE, 0, "") EXCEPT
                               !.report = [total_events |-> Len(events),
                                           upcoming_events |->
                                               [k \in 1..Cardinality(S) |-> events[f[k]]]]]
        /\ UNCHANGED <<now, store, recs, rlHist, adminRl, authVars>>
        /\ UNCHANGED <<proc, events, registrations, attendance, feedback, inflight>>

---------------------------------------------------------------------------
(* Specifications *)

\* the super-admin account the deployment is provisioned with
Root == [id |-> AdminId(1), username |-> "alice", email |-> "a@x.io",
         password_hash |-> hashPassword("secret", Salt), role |-> "super_admin",
         is_active |-> TRUE, last_login |-> NoLogin]

\* the environment variables the code reads: TRUE is set, FALSE is absent
Envs == [JWT_SECRET : BOOLEAN, SUPABASE_URL : BOOLEAN, SUPABASE_SERVICE_ROLE_KEY : BOOLEAN]

\* config/database.js and db.js: both database credentials are set
HasDatabaseConfig(e) == e.SUPABASE_URL /\ e.SUPABASE_SERVICE_ROLE_KEY

\* empty limiters, the provisioned admins table, empty domain tables
Fresh ==
    /\ now = 0
    /\ store = [k \in Keys |-> NoRecord]
    /\ recs = <<>>
    /\ pend = <<>>
    /\ hist = <<>>
    /\ admitLog = [k \in Keys |-> <<>>]
    /\ attempts = [k \in AdminKeys |-> <<>>]
    /\ adminLog = [k \in AdminKeys |-> <<>>]
    /\ rlReq = NoRlReq
    /\ rlRes = NoRlRes
    /\ admins = <<Root>>
    /\ before = <<Root>>
    /\ tokens = [i \in AdminIds |-> NoToken]
    /\ req = NoRequest
    /\ res = NoResponse
    /\ events = <<>>
    /\ registrations = <<>>
    /\ attendance = <<>>
    /\ feedback = <<>>
    /\ inflight = EmptyBag
    /\ prev = [events |-> <<>>, registrations |-> <<>>, attendance |-> <<>>, feedback |-> <<>>]
    /\ dreq = NoDomainRequest
    /\ dres = NoAnswer

\* the process is up: the modules were loaded, so the database credentials
\* are set
Init ==
    /\ Fresh
    /\ env \in {e \in Envs : HasDatabaseConfig(e)}
    /\ proc = "listening"

\* the process was just started, with any environment
InitStartup ==
    /\ Fresh
    /\ env \in Envs
    /\ proc = "loading"

\* The modules are loaded: config/database.js throws and db.js calls
\* process.exit(1) when a database credential is absent; nothing reads
\* JWT_SECRET.  Then the app listens.
Load ==
    /\ proc = "loading"
    /\ proc' = IF HasDatabaseConfig(env) THEN "listening" ELSE "exited"
    /\ UNCHANGED <<now, store, recs, rlHist, adminRl, authVars>>
    /\ UNCHANGED <<events, registrations, attendance, feedback, inflight, prev, dreq, dres>>

\* status codes a finished response can carry
StatusCodes == {200, 401, 500}

DoLimiterRequest == \E l \in LimiterNames, ip \in IPs, clean \in BOOLEAN : LimiterRequest(l, ip, clean)
DoFinish == \E rid \in 1..Len(recs), sc \in StatusCodes : Finish(rid, sc)
DoAdminRateLimit == \E u \in RLUsers : AdminRateLimit(u)

NextRL ==
    \/ DoLimiterRequest
    \/ DoFinish
    \/ DoAdminRateLimit
    \/ Tick

\* the rate limiters
SpecRL == Init /\ [][NextRL]_vars

TargetIds == AdminIds \cup {UnknownId}

DoRegister ==
    \E u \in Usernames, e \in Emails, p \in {Missing, "12345", "hunter22"},
       r \in {Missing, "super_admin"}, f \in DbFaults :
        Register(u, e, p, r, f)
DoLogin ==
    \E i \in Usernames \cup Emails \cup {"nobody"}, p \in Passwords, f \in DbFaults :
        Login(i, p, f)
DoRejectedToken == \E h \in Headers : RejectedToken(h)
DoChangePassword ==
    \E h \in Headers, c \in Passwords, n \in {Missing, "12345", "hunter22"}, f \in DbFaults :
        ChangePassword(h, c, n, f)
DoGetAdmins ==
    \E h \in Headers, ip \in IPs, f \in {"none", "read"}, clean \in BOOLEAN :
        GetAdmins(h, ip, f, clean)
DoDeactivateAdmin ==
    \E h \in Headers, id \in TargetIds, f \in {"none", "write"} : DeactivateAdmin(h, id, f)
DoActivateAdmin ==
    \E h \in Headers, id \in TargetIds, f \in {"none", "write"} : ActivateAdmin(h, id, f)

NextAuth ==
    \/ DoRegister
    \/ DoLogin
    \/ DoRejectedToken
    \/ DoChangePassword
    \/ DoDeactivateAdmin
    \/ DoActivateAdmin
    \/ Deliver
    \/ AuthTick

\* the auth layer: registration, login and the routes behind verifyToken
SpecAuth == Init /\ [][NextAuth]_vars

NextAdmins ==
    \/ DoRegister
    \/ DoLogin
    \/ DoRejectedToken
    \/ DoGetAdmins
    \/ Deliver
    \/ AuthTick

\* the route GET /auth/admins with its middleware chain
SpecAdmins == Init /\ [][NextAdmins]_vars

DoGetProfile ==
    \E h \in Headers, ip \in IPs, f \in {"none", "read"} :
        Profile("profile", h, ip, Missing, Missing, f, FALSE)
DoUpdateProfile ==
    \E h \in Headers, ip \in IPs, u \in {Missing, "bob"}, e \in {Missing, "b@x.io"},
       f \in DbFaults :
        Profile("update-profile", h, ip, u, e, f, FALSE)

NextProfile ==
    \/ DoRegister
    \/ DoLogin
    \/ DoRejectedToken
    \/ DoGetProfile
    \/ DoUpdateProfile
    \/ DoGetAdmins
    \/ Deliver

\* every route of the auth layer that returns admin records, at one time
SpecProfile == Init /\ [][NextProfile]_vars

\* requests are handled once the app listens
ServeLogin == proc = "listening" /\ DoLogin
ServeRejectedToken == proc = "listening" /\ DoRejectedToken
ServeGetProfile == proc = "listening" /\ DoGetProfile
ServeDeliver == proc = "listening" /\ Deliver

NextStartup ==
    \/ Load
    \/ ServeLogin
    \/ ServeRejectedToken
    \/ ServeGetProfile
    \/ ServeDeliver

\* the process from its start
SpecStartup == InitStartup /\ [][NextStartup]_vars

RowIds == 1..(MaxRows + 1)

DoRegisterBegin ==
    \E path \in RegistrationPaths, e \in EventIds \cup {Missing}, st \in {"s1"},
       status \in {Missing, "bogus"} :
        RegisterBegin(path, e, st, status)
DoRegisterInsert == \E d \in BagToSet(inflight), f \in StoreFaults : RegisterInsert(d, f)
DoUpdateRegistrationStatus ==
    \/ \E id \in RowIds, f \in StoreFaults : UpdateRegistrationStatus("cancel", id, Missing, f)
    \/ \E id \in RowIds, status \in {"confirmed", "bogus"} :
          UpdateRegistrationStatus("update-status", id, status, "none")
DoDeleteRegistration == \E id \in RowIds : DeleteRegistration(id, "none")

NextReg ==
    \/ DoRegisterBegin
    \/ DoRegisterInsert
    \/ DoUpdateRegistrationStatus
    \/ DoDeleteRegistration

\* the registrations layer
SpecReg == Init /\ [][NextReg]_vars

DoCreateEvent ==
    \E path \in EventPaths, d \in Dates \cup {NoDate}, f \in StoreFaults : CreateEvent(path, d, f)

NextEvents ==
    \/ DoCreateEvent
    \/ Tick

\* the events layer
SpecEvents == Init /\ [][NextEvents]_vars

FeedbackIds == 1..(MaxFeedback + 1)

DoCreateFeedback ==
    \E path \in FeedbackPaths, e \in EventIds, r \in RatingInputs, f \in StoreFaults :
        \E st \in (IF e = "e1" THEN StudentIds ELSE {"s1"}) :
            CreateFeedback(path, e, st, r, f)
DoUpdateFeedback ==
    \E id \in FeedbackIds, r \in {NoRating, 0, 35, 40}, f \in StoreFaults :
        UpdateFeedback(id, r, f)
DoFeedbackStats ==
    \E op \in StatsOps, e \in EventIds, f \in StoreFaults : FeedbackStats(op, e, f)

NextFeedback ==
    \/ DoCreateFeedback
    \/ DoUpdateFeedback
    \/ DoFeedbackStats

\* the feedback layer
SpecFeedback == Init /\ [][NextFeedback]_vars

\* the pairs of event and student used with attendance
AttendancePairs == {<<"e1", "s1">>, <<"e1", "s2">>, <<"e2", "s1">>}

DoRegisterForEvent ==
    \E st \in StudentIds : RegisterBegin("handler", "e1", st, Missing)
DoMarkAttendance ==
    \/ \E p \in AttendancePairs, status \in AttendanceStatuses :
          MarkAttendance(p[1], p[2], status, "none")
    \/ \E status \in StatusInputs, f \in StoreFaults : MarkAttendance("e1", "s1", status, f)
DoAttendanceRate ==
    \E op \in RateOps, e \in EventIds, f \in StoreFaults : AttendanceRate(op, e, f)

NextAttendance ==
    \/ DoRegisterForEvent
    \/ DoRegisterInsert
    \/ DoMarkAttendance
    \/ DoAttendanceRate

\* registrations, attendance and the attendance rate
SpecAttendance == Init /\ [][NextAttendance]_vars

DoMarkAttendanceRecord ==
    \E path \in AttendanceServicePaths, st \in {"s1", Missing}, status \in {"present", "bogus"},
       cin \in {NoDate, 1}, cout \in {NoDate, 0}, f \in StoreFaults :
        MarkAttendanceRecord(path, "e1", st, status, cin, cout, f)
DoUpdateAttendanceRecord ==
    \E id \in {1, MaxRows + 1}, cout \in {NoDate, 0}, f \in StoreFaults :
        UpdateAttendanceRecord(id, NoDate, cout, f)
DoCheckOutStudent == \E f \in StoreFaults : CheckOutStudent("s1", "e1", f)

NextAttendanceService ==
    \/ DoMarkAttendanceRecord
    \/ DoUpdateAttendanceRecord
    \/ DoCheckOutStudent
    \/ Tick

\* AttendanceService
SpecAttendanceService == Init /\ [][NextAttendanceService]_vars

DoCreateEventOfCollege ==
    \E c \in CollegeIds : CreateEventWith("handler", 1, c, 1, "none")
DoCollegeStatsReport == \E f \in StoreFaults : CollegeStatsReport(f)
DoDashboardReport == \E f \in StoreFaults : DashboardReport(f)

NextReports ==
    \/ DoCreateEventOfCollege
    \/ DoRegisterForEvent
    \/ DoRegisterInsert
    \/ DoCollegeStatsReport
    \/ DoDashboardReport
    \/ Tick

\* ReportService over the events and registrations tables
SpecReports == Init /\ [][NextReports]_vars

DoCreateEventWithSeats == \E c \in CollegeIds : CreateEventWith("service", 1, c, 1, "none")
DoRegisterStudent ==
    \E path \in RegistrationPaths, st \in StudentIds : RegisterBegin(path, "e1", st, Missing)
DoEventCapacity ==
    \E op \in CapacityOps, e \in EventIds, f \in StoreFaults : EventCapacity(op, e, f)

NextCapacity ==
    \/ DoCreateEventWithSeats
    \/ DoRegisterStudent
    \/ DoRegisterInsert
    \/ DoEventCapacity

\* events with a number of seats, and the registrations for them
SpecCapacity == Init /\ [][NextCapacity]_vars

DoForgotPassword ==
    \E e \in Emails \cup {Missing}, f \in {"none", "read"} : ForgotPassword(e, f)

NextReset ==
    \/ DoRegister
    \/ DoForgotPassword
    \/ Deliver

\* registration and the request for a password reset
SpecReset == Init /\ [][NextReset]_vars

---------------------------------------------------------------------------
(* Claims about the rate limiters (SpecRL) *)

\* C1 -- once max requests of a key are counted in the record of the key's
\* current window, a request of that key before that record's resetTime gets
\* 429 and next() is not called; a request at or after that resetTime is
\* admitted with a fresh count of 1.
C1_LimitThenReset ==
    (rlReq.lim \in LimiterNames /\ rlReq.curRid # 0) =>
        /\ (rlReq.curCount >= Limiter(rlReq.lim).max /\ rlReq.at < rlReq.curReset)
              => (rlRes.status = 429 /\ rlRes.nextCalled = 0)
        /\ (rlReq.at >= rlReq.curReset)
              => (rlRes.nextCalled = 1 /\ rlRes.count = 1)

\* C1, restricted to limiters without a skip option (no finish-time write-back)
C1_LimitThenReset_NoSkip ==
    (rlReq.lim \in LimiterNames
        /\ ~Limiter(rlReq.lim).skipSuccessfulRequests
        /\ ~Limiter(rlReq.lim).skipFailedRequests) => C1_LimitThenReset

\* C25 -- with skipSuccessfulRequests / skipFailedRequests, the decrement of
\* a finishing request only undoes that request's own increment: when a
\* request counted in one window finishes after the key's record was replaced
\* by the record of a new window, the key's record keeps the new window's
\* count and resetTime.
C25_FinishKeepsNewWindow ==
    [][\A rid \in 1..Len(recs) :
          LET key == recs[rid].key
          IN  (pend'[rid] < pend[rid] /\ store[key] # NoRecord /\ store[key] # rid)
                 => /\ recs'[store'[key]].count = recs[store[key]].count
                    /\ recs'[store'[key]].resetTime = recs[store[key]].resetTime]_vars

\* C25 for a request that finishes while its record is still the key's
\* record: the count goes down by at most one, and only if the limiter has a
\* skip option; resetTime stays
C25_FinishKeepsNewWindow_SameWindow ==
    [][\A rid \in 1..Len(recs) :
          LET key == recs[rid].key
          IN  (pend'[rid] < pend[rid] /\ store[key] = rid)
                 => /\ store'[key] = rid
                    /\ recs'[rid].resetTime = recs[rid].resetTime
                    /\ recs'[rid].count \in {recs[rid].count, recs[rid].count - 1}
                    /\ (recs'[rid].count # recs[rid].count)
                          => (Limiter(recs[rid].lim).skipSuccessfulRequests
                                 \/ Limiter(recs[rid].lim).skipFailedRequests)]_vars

\* C2 (as stated) -- every interval of length windowMs contains at most max
\* admitted requests of a key; stated for the limiters that never un-count.
C2_SlidingWindow ==
    \A ip \in IPs : \A t \in Times :
        CountIn(admitLog[keyGenerator("general", ip)], t, t + WindowMs - 1) <= LimMax

\* C2 (amended) -- createLimiter bounds the count per record (fixed window):
\* the requests admitted against one record object and not un-counted number
\* at most max, and for a limiter without skip option the interval from the
\* record's creation to its resetTime contains at most max admitted requests;
\* AdminMiddleware.rateLimit bounds every interval of length windowMs.
C2_FixedWindow ==
    /\ \A rid \in 1..Len(recs) :
          hist[rid].adm - hist[rid].decs <= Limiter(recs[rid].lim).max
    /\ \A rid \in 1..Len(recs) :
          recs[rid].lim = "general" =>
              CountIn(admitLog[recs[rid].key],
                      recs[rid].resetTime - Limiter("general").windowMs,
                      recs[rid].resetTime - 1) <= Limiter("general").max
    /\ \A k \in AdminKeys : \A t \in Times :
          CountIn(adminLog[k], t, t + WindowMs - 1) <= LimMax

\* a record has admitted max requests and the next request was refused
C2_Witness ==
    /\ rlRes.status = 429
    /\ rlReq.lim = "general"
    /\ \E rid \in 1..Len(recs) : recs[rid].lim = "general" /\ hist[rid].adm = LimMax

\* C3 -- the count of every record object equals the number of increments
\* executed on it minus the number of finish-time decrements, for every
\* interleaving of requests and finishing responses.
C3_AtomicCount ==
    /\ \A rid \in 1..Len(recs) : recs[rid].count = hist[rid].incs - hist[rid].decs
    /\ \A k \in Keys : store[k] # NoRecord =>
          recs[store[k]].count = hist[store[k]].incs - hist[store[k]].decs

\* two requests were counted in one record while a response was pending, and
\* one was un-counted at finish
C3_Witness ==
    \E rid \in 1..Len(recs) :
        /\ hist[rid].incs >= 2
        /\ hist[rid].decs >= 1
        /\ pend[rid] >= 1
        /\ store[recs[rid].key] = rid

---------------------------------------------------------------------------
(* Claims about the auth layer (SpecAuth, SpecAdmins) *)

\* the rows of the table before the request that the login lookup can match
MatchedBefore(identifier) ==
    {i \in 1..Len(before) : before[i].email = identifier \/ before[i].username = identifier}

\* C4 -- a login with the correct password for an account whose is_active is
\* false ends in 401: no access or refresh token is issued and no stored row
\* (in particular that account's last_login) changes.
C4_InactiveLoginFails ==
    (req.route = "login"
        /\ \E i \in MatchedBefore(req.identifier) :
              ~before[i].is_active /\ before[i].password_hash.pw = req.password)
    => /\ res.status = 401
       /\ res.accessToken = NoToken
       /\ res.refreshToken = NoToken
       /\ admins = before

\* a deactivated account presented its correct password and was refused
C4_Witness ==
    /\ req.route = "login"
    /\ req.fault = "none"
    /\ \E i \in MatchedBefore(req.identifier) :
          ~before[i].is_active /\ before[i].password_hash.pw = req.password
    /\ res.status = 401

\* C5 -- a failed login (identifier matches no admin, matched account
\* inactive, or password not matching the stored hash) gets the same generic
\* response in all three cases: 401 with the "invalid credentials" message.
C5_GenericFailure ==
    (req.route = "login" /\ req.fault = "none"
        /\ \/ MatchedBefore(req.identifier) = {}
           \/ \E i \in MatchedBefore(req.identifier) : ~before[i].is_active
           \/ \E i \in MatchedBefore(req.identifier) : before[i].password_hash.pw # req.password)
    => /\ res.status = 401
       /\ res.message = "Login failed: Invalid credentials"

\* C6 -- a registration whose username or email equals that of a stored admin
\* is rejected: no row is added, the stored rows are unchanged, no token is
\* issued.
C6_DuplicateRejected ==
    (req.route = "register"
        /\ \E i \in 1..Len(before) :
              before[i].username = req.username \/ before[i].email = req.email)
    => /\ res.status >= 400
       /\ admins = before
       /\ res.accessToken = NoToken
       /\ res.refreshToken = NoToken

\* an otherwise valid registration was refused for its username alone
C6_Witness ==
    /\ req.route = "register"
    /\ req.fault = "none"
    /\ Len(req.password) >= RegisterMinPassword
    /\ \E i \in 1..Len(before) : before[i].username = req.username
    /\ \A i \in 1..Len(before) : before[i].email # req.email
    /\ res.status = 400
    /\ admins = before

ProtectedRoutes == {"protected", "change-password", "admins", "deactivate", "activate"}

\* how jwt.verify classifies the token of the last request
BadToken == req.header.kind = "garbage" \/ req.header.sig # "good"
ExpiredToken == ~BadToken /\ req.at >= req.header.exp

\* C7 -- verifyToken answers an expired token with 401 'Token has expired'
\* and a malformed or badly signed token with 401 'Invalid token', without
\* calling next(); for a valid token it sets req.user to the decoded claims
\* and calls next() exactly once.
C7_VerifyToken ==
    (req.route \in ProtectedRoutes /\ req.header # NoToken) =>
        /\ ExpiredToken => /\ res.status = 401
                           /\ res.message = "Token has expired"
                           /\ res.nextCalls = 0
                           /\ req.route = "protected"
        /\ BadToken => /\ res.status = 401
                       /\ res.message = "Invalid token"
                       /\ res.nextCalls = 0
                       /\ req.route = "protected"
        /\ (~BadToken /\ ~ExpiredToken) => /\ res.user = req.header.payload
                                           /\ res.nextCalls = 1
                                           /\ req.route # "protected"

\* C7, restricted to a process whose JWT_SECRET is set
C7_VerifyToken_Configured == env.JWT_SECRET => C7_VerifyToken

\* a correctly signed token was refused because it had expired
C7_ExpiredRefused ==
    /\ req.route = "protected"
    /\ req.header.kind = "access"
    /\ req.header.sig = "good"
    /\ req.at >= req.header.exp
    /\ res.message = "Token has expired"

\* the `general` limiter has counted more than max requests of the caller
GeneralExhausted(ip) ==
    LET k == keyGenerator("general", ip)
    IN  store[k] # NoRecord /\ recs[store[k]].count > Limiter("general").max

\* C8 -- GET /auth/admins with a valid token of role admin gets 403 and no
\* list; with role super_admin it gets 200 and the list (when the general
\* limiter admits the request and the store answers); the list is returned
\* only to a request whose verified token has role super_admin.
C8_RoleGate ==
    /\ (req.route = "admins" /\ req.header.payload.role = "admin")
          => (res.status = 403 /\ res.admins = <<>>)
    /\ (req.route = "admins" /\ req.header.payload.role = "super_admin"
            /\ req.fault = "none" /\ \A ip \in IPs : ~GeneralExhausted(ip))
          => (res.status = 200 /\ Len(res.admins) = Len(admins))
    /\ (res.admins # <<>>)
          => (req.route = "admins" /\ req.header.sig = "good"
                /\ req.at < req.header.exp /\ req.header.payload.role = "super_admin")

\* a token of role admin was refused the list
C8_Witness ==
    /\ req.route = "admins"
    /\ req.header.payload.role = "admin"
    /\ res.status = 403

\* a token of role super_admin received the list
C8_WitnessList ==
    /\ req.route = "admins"
    /\ req.header.payload.role = "super_admin"
    /\ res.status = 200
    /\ Len(res.admins) = 2

\* the account with this id is stored as deactivated
Deactivated(db, id) == \E i \in 1..Len(db) : db[i].id = id /\ ~db[i].is_active

SuperAdminRoutes == {"admins", "activate", "deactivate"}

\* C26 -- once the account of admin X is deactivated, no request that carries
\* a token issued to X before the deactivation succeeds on an operation for
\* super-admins only (list admins, activate, deactivate); in particular X
\* cannot activate its own account again.
C26_DeactivatedLockedOut ==
    (req.route \in SuperAdminRoutes /\ req.header.sig = "good"
        /\ Deactivated(before, req.header.payload.id))
    => /\ res.status >= 400
       /\ admins = before

\* C26 for a deactivated account whose token has role admin
C26_DeactivatedLockedOut_RoleAdmin ==
    (req.route \in SuperAdminRoutes /\ req.header.sig = "good"
        /\ req.header.payload.role = "admin"
        /\ Deactivated(before, req.header.payload.id))
    => /\ res.status = 403
       /\ admins = before

\* C9 -- a super-admin's request to deactivate the account whose id is the
\* id of their own token is answered with a 4xx error and no stored row (in
\* particular that account's is_active) changes.
C9_SelfDeactivation ==
    (req.route = "deactivate"
        /\ req.header.payload.role = "super_admin"
        /\ req.id = req.header.payload.id)
    => /\ res.status >= 400
       /\ res.status < 500
       /\ admins = before

\* an active super-admin asked to deactivate itself and was refused
C9_Witness ==
    /\ req.route = "deactivate"
    /\ req.header.payload.role = "super_admin"
    /\ req.id = req.header.payload.id
    /\ \E i \in 1..Len(admins) : admins[i].id = req.id /\ admins[i].is_active
    /\ res.status = 400

\* the row of the admin that sent the request
OwnRows == {i \in 1..Len(before) : before[i].id = req.header.payload.id}

\* C10 -- a password change replaces a stored hash only if the current
\* password matches the stored hash and the new password has the minimum
\* length of registration; with a wrong current password or a too short new
\* one the request fails and every stored hash is unchanged.
C10_PasswordChange ==
    (req.route = "change-password") =>
        /\ \A j \in 1..Len(before) :
              admins[j].password_hash # before[j].password_hash =>
                  /\ j \in OwnRows
                  /\ before[j].password_hash.pw = req.password
                  /\ Len(req.newPassword) >= RegisterMinPassword
                  /\ admins[j].password_hash.pw = req.newPassword
                  /\ res.status = 200
        /\ ((\E i \in OwnRows : before[i].password_hash.pw # req.password)
                \/ Len(req.newPassword) < RegisterMinPassword)
              => (res.status >= 400 /\ admins = before)

\* a well-formed new password was refused because the current one was wrong
C10_Witness ==
    /\ req.route = "change-password"
    /\ req.fault = "none"
    /\ Len(req.newPassword) >= RegisterMinPassword
    /\ \E i \in OwnRows : before[i].password_hash.pw # req.password
    /\ res.status = 400
    /\ admins = before

---------------------------------------------------------------------------
(* Claims about registrations (SpecReg) *)

\* the confirmed registrations of a (student, event) pair in a table
ConfirmedOf(rows, event_id, student_id) ==
    {i \in 1..Len(rows) : /\ rows[i].event_id = event_id
                          /\ rows[i].student_id = student_id
                          /\ isActive(rows[i])}

\* C11 -- in every interleaving of registration requests there is at most
\* one confirmed registration per (student, event) pair, and the insert of a
\* registration for a pair that has a confirmed registration is rejected and
\* leaves the registrations table unchanged.
C11_OneActiveRegistration ==
    /\ \A e \in EventIds, st \in StudentIds :
          Cardinality(ConfirmedOf(registrations, e, st)) <= 1
    /\ (dreq.op = "insert-registration"
           /\ ConfirmedOf(prev.registrations, dreq.event_id, dreq.student_id) # {})
       => (~dres.ok /\ registrations = prev.registrations)

\* an insert was sent while the pair had no row, another insert for the pair
\* was executed first and stored as confirmed, and this one was then refused
C11_Witness ==
    /\ dreq.op = "insert-registration"
    /\ dreq.fault = "none"
    /\ ConfirmedOf(prev.registrations, dreq.event_id, dreq.student_id) # {}
    /\ dreq.sentFree
    /\ ~dres.ok
    /\ registrations = prev.registrations

---------------------------------------------------------------------------
(* Claims about events (SpecEvents) *)

\* C12 -- on every creation path an event whose date is not strictly later
\* than the time of the request fails validation and no event is persisted.
C12_FutureDateOnly ==
    (dreq.op = "create-event" /\ dreq.date <= dreq.at)
    => (~dres.ok /\ events = prev.events)

\* C12, for EventService.createEvent alone
C12_FutureDateOnly_Service ==
    (dreq.op = "create-event" /\ dreq.path = "service" /\ dreq.date <= dreq.at)
    => (~dres.ok /\ events = prev.events)

---------------------------------------------------------------------------
(* Claims about feedback (SpecFeedback) *)

\* a rating in tenths is one of the whole ratings 1..5
WholeRating1to5(tenths) == tenths \in {10, 20, 30, 40, 50}

\* C13 -- a rating is accepted only if it is an integer from 1 to 5, on the
\* create paths and on update: such a rating is accepted (when the store
\* answers, the pair has no feedback yet, respectively the row exists), any
\* other rating is rejected and changes nothing, and no stored feedback has a
\* rating outside 1..5.
C13_RatingRange ==
    /\ \A i \in 1..Len(feedback) : feedback[i].rating \in 1..5
    /\ (dreq.op \in {"create-feedback", "update-feedback"} /\ dreq.rating # NoRating
           /\ ~WholeRating1to5(dreq.rating))
       => (~dres.ok /\ feedback = prev.feedback)
    /\ (dreq.op = "create-feedback" /\ WholeRating1to5(dreq.rating) /\ dreq.fault = "none"
           /\ UniqueFeedback(prev.feedback, dreq.event_id, dreq.student_id))
       => dres.ok
    /\ (dreq.op = "update-feedback" /\ WholeRating1to5(dreq.rating) /\ dreq.fault = "none"
           /\ RowsById(prev.feedback, dreq.id) # {})
       => dres.ok

\* C13 without the acceptance of valid ratings on update
C13_RatingRange_Create ==
    /\ \A i \in 1..Len(feedback) : feedback[i].rating \in 1..5
    /\ (dreq.op \in {"create-feedback", "update-feedback"} /\ dreq.rating # NoRating
           /\ ~WholeRating1to5(dreq.rating))
       => (~dres.ok /\ feedback = prev.feedback)
    /\ (dreq.op = "create-feedback" /\ WholeRating1to5(dreq.rating) /\ dreq.fault = "none"
           /\ UniqueFeedback(prev.feedback, dreq.event_id, dreq.student_id))
       => dres.ok

\* the rows a statistics request is about
StatsRows ==
    IF dreq.op = "overall-stats" THEN 1..Len(feedback)
    ELSE {i \in 1..Len(feedback) : feedback[i].event_id = dreq.event_id}

\* the number of rows a statistics request is about that have rating r
RatedAs(r) == Cardinality({i \in StatsRows : feedback[i].rating = r})

\* h hundredths is num / den rounded to two decimals
RoundedTo2(h, num, den) ==
    LET diff == h * den - 100 * num
    IN  2 * (IF diff >= 0 THEN diff ELSE -diff) <= den

\* C15 -- feedback statistics: average_rating is the mean of the ratings
\* rounded to 2 decimals, rating_distribution has exactly the buckets 1..5
\* with the number of rows of each rating, summing to total_feedback,
\* satisfaction_rate is the percentage of rows rated 4 or 5 rounded to 2
\* decimals; without rows the average and the satisfaction rate are 0.
C15_FeedbackStats ==
    (dreq.op \in StatsOps /\ dres.ok) =>
        LET n    == Cardinality(StatsRows)
            sum  == RatedAs(1) + 2 * RatedAs(2) + 3 * RatedAs(3) + 4 * RatedAs(4) + 5 * RatedAs(5)
            st   == dres.stats
        IN  /\ st.total_feedback = n
            /\ n = 0 => st.average_rating = 0
            /\ n > 0 => RoundedTo2(st.average_rating, sum, n)
            /\ st.has_distribution =>
                  /\ DOMAIN st.rating_distribution = 1..5
                  /\ \A r \in 1..5 : st.rating_distribution[r] = RatedAs(r)
                  /\ st.rating_distribution[1] + st.rating_distribution[2]
                       + st.rating_distribution[3] + st.rating_distribution[4]
                       + st.rating_distribution[5] = st.total_feedback
            /\ st.has_satisfaction_rate =>
                  /\ n = 0 => st.satisfaction_rate = 0
                  /\ n > 0 => RoundedTo2(st.satisfaction_rate,
                                         100 * (RatedAs(4) + RatedAs(5)), n)

\* the overall statistics of the ratings 5, 4, 3: 4.00, one row in each of
\* the buckets 3, 4, 5, and 66.67
C15_Witness ==
    /\ dreq.op = "overall-stats"
    /\ dres.ok
    /\ Len(feedback) = 3
    /\ dres.stats.average_rating = 400
    /\ dres.stats.rating_distribution = [r \in 1..5 |-> IF r >= 3 THEN 1 ELSE 0]
    /\ dres.stats.satisfaction_rate = 6667

---------------------------------------------------------------------------
(* Claims about the attendance rate (SpecAttendance) *)

\* the registrations of the event of the request
RegistrationsOfEvent ==
    Cardinality({i \in 1..Len(registrations) : registrations[i].event_id = dreq.event_id})

\* the attendance records of the event of the request with status present
PresentOfEvent ==
    Cardinality({i \in 1..Len(attendance) :
                    /\ attendance[i].event_id = dreq.event_id
                    /\ attendance[i].status = "Present"})

\* the rate of an answer is present / total_registrations * 100 rounded to 2
\* decimals, and 0 without registrations
RateIsRight ==
    /\ RegistrationsOfEvent = 0 => dres.rate = 0
    /\ RegistrationsOfEvent > 0 =>
          RoundedTo2(dres.rate, 100 * PresentOfEvent, RegistrationsOfEvent)

\* C14 -- the attendance rate reported for an event is present_count /
\* total_registrations * 100 rounded to 2 decimals, where present_count is
\* the number of attendance records of the event with status present and
\* total_registrations the number of registrations of the event; it is 0 when
\* the event has no registrations.
C14_AttendanceRate == (dreq.op \in RateOps /\ dres.ok) => RateIsRight

\* C14 for attendancePercentage alone
C14_AttendanceRate_Percentage ==
    (dreq.op = "attendance-percentage" /\ dres.ok) =>
        /\ RateIsRight
        /\ dres.total = RegistrationsOfEvent
        /\ dres.present = PresentOfEvent

---------------------------------------------------------------------------
(* Claims about what the auth layer returns (SpecProfile) *)

\* the routes that return admin records
AdminRoutes == {"register", "login", "profile", "update-profile", "admins"}

\* C16 -- no value returned to a caller by register, login, get-profile,
\* update-profile or list-admins contains the password hash, although every
\* stored admin row has one.
C16_NoPasswordHash ==
    /\ \A i \in 1..Len(admins) : admins[i].password_hash # NoHash
    /\ req.route \in AdminRoutes =>
          /\ res.admin.password_hash = NoHash
          /\ \A i \in 1..Len(res.admins) : res.admins[i].password_hash = NoHash

\* a profile was returned after its update
C16_Witness ==
    /\ req.route = "update-profile"
    /\ res.status = 200
    /\ res.admin.username = "bob"
    /\ \E i \in 1..Len(admins) :
          /\ admins[i].id = res.admin.id
          /\ admins[i].username = "bob"
          /\ admins[i].password_hash # NoHash

\* the messages a response can carry that say nothing about the failure
GenericMessages == {"Internal server error", "Server error", "An error occurred",
                    "Something went wrong", "Server configuration error"}

\* C18 -- a response with status >= 500 carries a generic message, never the
\* message text of the internal error.
C18_Generic5xx == res.status >= 500 => res.message \in GenericMessages

---------------------------------------------------------------------------
(* Claims about store errors and the login time (SpecAuth) *)

\* the routes of SpecAuth whose handlers call the store
StoreRoutes == {"register", "login", "change-password", "deactivate", "activate"}

\* C17 -- no operation reports success after a store call inside it failed:
\* a request during which the store fails is answered with an error that
\* carries the failure, and changes no row.
C17_StoreErrorsPropagate ==
    (req.route \in StoreRoutes /\ req.fault # "none") =>
        /\ res.status >= 400
        /\ admins = before

\* C17 for every store call but the update of last_login
C17_StoreErrorsPropagate_ExceptLastLogin ==
    (req.route \in StoreRoutes /\ req.fault # "none"
        /\ ~(req.route = "login" /\ req.fault = "write")) =>
        /\ res.status >= 400
        /\ admins = before

\* C20 -- whenever a login is answered with success and tokens, the stored
\* last_login of that admin is the time of that login.
C20_LastLoginUpdated ==
    (req.route = "login" /\ res.status = 200 /\ res.accessToken # NoToken) =>
        \E i \in 1..Len(admins) :
            /\ admins[i].id = res.admin.id
            /\ admins[i].last_login = req.at

\* C20 when the store accepts the update of last_login
C20_LastLoginUpdated_NoFault ==
    (req.route = "login" /\ res.status = 200 /\ res.accessToken # NoToken
        /\ req.fault = "none") =>
        \E i \in 1..Len(admins) :
            /\ admins[i].id = res.admin.id
            /\ admins[i].last_login = req.at

---------------------------------------------------------------------------
(* Claims about the start of the process (SpecStartup) *)

\* C19 -- if a database credential or the token-signing secret is absent
\* from the environment, the process stops at startup: it never listens, and
\* no request handler or middleware runs.
C19_StopAtStartup ==
    (proc = "listening" \/ req.route # "none") =>
        /\ HasDatabaseConfig(env)
        /\ env.JWT_SECRET

\* C19 for the database credentials alone
C19_StopAtStartup_Database ==
    /\ (proc = "listening" \/ req.route # "none") => HasDatabaseConfig(env)
    /\ (proc = "exited") => (~HasDatabaseConfig(env) /\ req.route = "none")

---------------------------------------------------------------------------
(* Claims about AttendanceService (SpecAttendanceService) *)

\* C21 -- every stored attendance record that has a check_out_time has it
\* not earlier than its check_in_time.
C21_CheckOutAfterCheckIn ==
    \A i \in 1..Len(attendance) :
        (attendance[i].check_out_time # NoDate /\ attendance[i].check_in_time # NoDate)
            => attendance[i].check_out_time >= attendance[i].check_in_time

\* C22 -- every attendance record persisted by markAttendance carries the
\* status its caller supplied, one of present, absent and late.
C22_StatusStored ==
    \A i \in 1..Len(attendance) :
        /\ attendance[i].status = attendance[i].marked
        /\ attendance[i].status \in {"present", "absent", "late"}

\* the rows of the request's pair that were marked present before it
MarkedPresentBefore ==
    {i \in 1..Len(prev.attendance) :
        /\ prev.attendance[i].student_id = dreq.student_id
        /\ prev.attendance[i].event_id = dreq.event_id
        /\ prev.attendance[i].marked = "present"}

\* C29 -- markAttendance with status present is rejected with 'Student
\* already checked in for this event today' whenever the student was already
\* marked present for the event (all marks of this model fall in one day),
\* whether or not a check_in_time was supplied, and the table is unchanged.
C29_OnePresentPerDay ==
    (dreq.op = "markAttendance" /\ dreq.status = "present" /\ dreq.student_id # Missing
        /\ now < DayLength /\ MarkedPresentBefore # {}) =>
        /\ ~dres.ok
        /\ dres.message = Wrap("Failed to mark attendance",
                               "Student already checked in for this event today")
        /\ attendance = prev.attendance

\* C29 when the earlier record has a check_in_time of the same day
C29_OnePresentPerDay_WithCheckIn ==
    (dreq.op = "markAttendance" /\ dreq.status = "present" /\ dreq.student_id # Missing
        /\ \E i \in MarkedPresentBefore :
              /\ prev.attendance[i].check_in_time # NoDate
              /\ Day(prev.attendance[i].check_in_time) = Day(dreq.at)) =>
        /\ ~dres.ok
        /\ attendance = prev.attendance

---------------------------------------------------------------------------
(* Claims about ReportService (SpecReports) *)

\* the students of a college
StudentsOfCollege(cId) == {Students[i].id : i \in {j \in 1..Len(Students) : Students[j].college_id = cId}}

\* the rows of a table whose student belongs to a college
RowsOfCollege(rows, cId) ==
    Cardinality({i \in 1..Len(rows) : rows[i].student_id \in StudentsOfCollege(cId)})

\* C23 -- generateCollegeStatsReport returns, for every college with a
\* student, total_students equal to the number of its students, and
\* registration, attendance and feedback totals equal to the number of rows
\* of the respective table whose student belongs to the college; the student
\* totals sum to summary.total_students.
C23_CollegeTotals ==
    (dreq.op = "college-stats" /\ dres.ok) =>
        LET st == dres.report.college_statistics
        IN  /\ DOMAIN st = {cId \in CollegeIds : StudentsOfCollege(cId) # {}}
            /\ \A cId \in DOMAIN st :
                  /\ st[cId].total_students = Cardinality(StudentsOfCollege(cId))
                  /\ st[cId].active_registrations = RowsOfCollege(registrations, cId)
                  /\ st[cId].total_attendance = RowsOfCollege(attendance, cId)
                  /\ st[cId].total_feedback = RowsOfCollege(feedback, cId)
            /\ st[1].total_students + st[5].total_students = dres.report.summary.total_students

\* C23 for the student totals alone
C23_CollegeTotals_Students ==
    (dreq.op = "college-stats" /\ dres.ok) =>
        LET st == dres.report.college_statistics
        IN  /\ DOMAIN st = {cId \in CollegeIds : StudentsOfCollege(cId) # {}}
            /\ \A cId \in DOMAIN st :
                  st[cId].total_students = Cardinality(StudentsOfCollege(cId))
            /\ st[1].total_students + st[5].total_students = dres.report.summary.total_students

UpcomingLimit == 5

\* C24 -- the dashboard's upcoming_events holds only events with date >= now,
\* in ascending date order, at most 5 of them, of every college: when there
\* are at most 5 upcoming events, all of them are reported.
C24_UpcomingEvents ==
    (dreq.op = "dashboard" /\ dres.ok) =>
        LET up == dres.report.upcoming_events
            U  == {i \in 1..Len(events) : events[i].date >= dreq.at}
        IN  /\ \A k \in 1..Len(up) :
                  /\ up[k].date >= dreq.at
                  /\ \E i \in U : events[i] = up[k]
            /\ \A a, b \in 1..Len(up) : a < b => up[a].date <= up[b].date
            /\ Len(up) <= UpcomingLimit
            /\ Cardinality(U) <= UpcomingLimit => \A i \in U : \E k \in 1..Len(up) : up[k] = events[i]

\* C24 without the events of the other colleges
C24_UpcomingEvents_OneCollege ==
    (dreq.op = "dashboard" /\ dres.ok) =>
        LET up == dres.report.upcoming_events
            U  == {i \in 1..Len(events) : events[i].date >= dreq.at}
        IN  /\ \A k \in 1..Len(up) :
                  /\ up[k].date >= dreq.at
                  /\ \E i \in U : events[i] = up[k]
            /\ \A a, b \in 1..Len(up) : a < b => up[a].date <= up[b].date
            /\ \A i \in U : events[i].college_id = DashboardUpcomingArg
                               => \E k \in 1..Len(up) : up[k] = events[i]

---------------------------------------------------------------------------
(* Claims about the capacity of events (SpecCapacity) *)

\* the event row that a request names
EventRowOf(rows, eventId) == {i \in 1..Len(rows) : EventIdOf(rows[i]) = eventId}

\* C27 -- the confirmed registrations of an event never exceed its
\* max_attendees; a registration for an event that is full is not accepted;
\* the number getAvailableSpots returns is the number of seats that remain,
\* which is never negative.
C27_CapacityRespected ==
    /\ \A i \in 1..Len(events) :
          ConfirmedCount(registrations, EventIdOf(events[i])) <= events[i].max_attendees
    /\ (dreq.op = "insert-registration" /\ dres.ok) =>
          \A i \in EventRowOf(prev.events, dreq.event_id) :
              ConfirmedCount(prev.registrations, dreq.event_id) < prev.events[i].max_attendees
    /\ (dreq.op = "getAvailableSpots" /\ dres.ok) =>
          \A i \in EventRowOf(events, dreq.event_id) :
              /\ events[i].max_attendees - ConfirmedCount(registrations, dreq.event_id) >= 0
              /\ dres.report.spots =
                    events[i].max_attendees - ConfirmedCount(registrations, dreq.event_id)

\* C27 for the two queries alone: isEventFull answers whether the confirmed
\* registrations have reached max_attendees, getAvailableSpots answers the
\* seats that remain, or 0 when there are more registrations than seats
C27_CapacityRespected_Queries ==
    (dreq.op \in CapacityOps /\ dres.ok) =>
        \A i \in EventRowOf(events, dreq.event_id) :
            LET left == events[i].max_attendees - ConfirmedCount(registrations, dreq.event_id)
            IN  /\ dres.report.full = (left <= 0)
                /\ dres.report.spots >= 0
                /\ left >= 0 => dres.report.spots = left
                /\ left < 0 => dres.report.spots = 0

---------------------------------------------------------------------------
(* Claims about PUT /auth/profile (SpecProfile) *)

\* the rows of other admins that hold the username or the email of the request
UsedByAnother(db, adminId, username, email) ==
    {i \in 1..Len(db) :
        /\ db[i].id # adminId
        /\ \/ (username # Missing /\ db[i].username = username)
           \/ (email # Missing /\ db[i].email = email)}

C28_WitnessInUse ==
    /\ req.route = "update-profile"
    /\ UsedByAnother(before, req.header.payload.id, req.username, req.email) # {}
    /\ res.message = "Failed to update admin profile: Email already in use"

---------------------------------------------------------------------------
(* Claims about POST /auth/forgot-password (SpecReset) *)

\* the table without the admins of an email
WithoutEmail(db, email) == SelectSeq(db, LAMBDA row : row.email # email)

\* C30 -- the response of POST /auth/forgot-password for an email (its status
\* and its body, the messages included) is the one the same request gets when
\* no admin has that email.
C30_SameResponse ==
    (req.route = "forgot-password") =>
        LET other == AuthController_forgotPassword(WithoutEmail(before, req.email),
                                                   [email |-> req.email], req.fault).res
        IN  /\ res.status = other.status
            /\ res.message = other.message
            /\ res.data = other.data

\* C30 for the status and the top-level message of the body alone
C30_SameResponse_Status ==
    (req.route = "forgot-password") =>
        LET other == AuthController_forgotPassword(WithoutEmail(before, req.email),
                                                   [email |-> req.email], req.fault).res
        IN  /\ res.status = other.status
            /\ res.message = other.message
            /\ admins = before

====
